---- MODULE Spec2Model ----
(***************************************************************************)
(* A model of udigest's unambiguous encoding: the length codec, the leaf,  *)
(* list, struct and enum encoders of udigest/src/encoding.rs, the          *)
(* Digestable impls and the hash functions of udigest/src/lib.rs, and the  *)
(* DigestAs rules of udigest/src/as_.rs.                                   *)
(*                                                                         *)
(* Bytes are the integers 0..255 and a byte string is a sequence of them.  *)
(* An Option is a sequence of length at most one: None is <<>> and Some(x) *)
(* is <<x>>.  A machine integer of w bytes is its memory image, a sequence *)
(* of w bytes with the least significant byte first, so that widths up to  *)
(* 128 bits are covered without leaving the range of the checker's own     *)
(* integers; to_be_bytes reverses the image.                               *)
(***************************************************************************)
EXTENDS Integers, Sequences, FiniteSets, TLC

VARIABLES
    buffer,     \* the Buffer every encoder of the call graph writes to
    stack,      \* the live encoders, innermost borrow last
    panicked,   \* a panic was raised
    shadow,     \* history: the value each live encoder has been given so far
    result,     \* history: the finished top-level value, as an Option
    nodes,      \* history: how many EncodeValues were made
    fed,        \* history: how many content bytes were handed to update
    tagged,     \* history: how many times a tag was set
    fields,     \* history: how many times add_field was called
    lenIn,      \* encode_len's argument (SpecLen)
    intIn,      \* the integer handed to unambiguously_encode (SpecInt)
    valIn,      \* the value handed to encode_to_vec (SpecDigest), or the call
                \* of a hash function (SpecHash, SpecHeader)
    out         \* the caller's output slice of hash_vof and hash_vof_iter (SpecHash)

vars == <<buffer, stack, panicked, shadow, result, nodes, fed, tagged, fields, lenIn, intIn,
          valIn, out>>

(***************************************************************************)
(* Bounds of the model.                                                    *)
(***************************************************************************)
MaxNodes == 3        \* EncodeValues made by add_item in one run, and the first
MaxFields == 1       \* add_field calls in one run
MaxContent == 2      \* content bytes handed to update in one run
MaxFrag == 1         \* bytes handed to one update/chain call
MaxSetTag == 1       \* set_tag/with_tag calls in one run
MaxShort == 2        \* how far below usize::MAX a counter of SpecOverflow starts
MaxAttrs == 3        \* attributes on one field (SpecAttrs)
MaxRetag == 2        \* set_tag/with_tag calls in one run of SpecTag
MaxTagLen == 1       \* bytes of a domain tag
MaxNonZero == 2      \* non-zero bytes of a sampled usize
MaxMagLen == 2       \* significant bytes of a sampled integer magnitude
MaxItems == 2        \* elements of a sampled tuple or collection
MaxOut == 2          \* length of a sampled output slice
MaxAdded == 2        \* add_field calls on an InlineStruct
MaxDeclared == 2     \* fields of a sampled derived struct or enum variant
MaxBytes == 2        \* bytes of a sampled byte string

\* "1" and "2"
ByteSamples == {49, 50}
\* bytes a sampled usize or integer is made of
DigitSamples == {0, 1, 255}

None == <<>>
Some(x) == <<x>>

RECURSIVE SeqsUpTo(_, _)
SeqsUpTo(S, n) ==
    IF n = 0 THEN {<<>>}
    ELSE LET shorter == SeqsUpTo(S, n - 1)
         IN shorter \cup {Append(s, x) : s \in {t \in shorter : Len(t) = n - 1}, x \in S}

Reverse(s) == [i \in 1..Len(s) |-> s[Len(s) + 1 - i]]

(***************************************************************************)
(* Control symbols.                                                        *)
(***************************************************************************)
LIST == 1
LIST_CTX == 2
LEAF == 3
LEAF_CTX == 4
LEN_32 == 5
BIGLEN == 6

(***************************************************************************)
(* Machine integers.                                                       *)
(***************************************************************************)
USIZE_BITS == 64
UsizeBytes == USIZE_BITS \div 8

\* the memory image, w bytes wide, of the natural number n
Image(n, w) == [i \in 1..w |-> IF i <= 4 THEN (n \div 256 ^ (i - 1)) % 256 ELSE 0]

\* usize::MAX
usize_MAX == [i \in 1..UsizeBytes |-> 255]

\* `n as usize` for a small n (a slice's len())
usize(n) == Image(n, UsizeBytes)

\* mutant: the bytes in memory order (to_le_bytes)
to_be_bytes_le(x) == x

\* {integer}::to_be_bytes
to_be_bytes(x) == Reverse(x)

\* iter().take_while(|b| **b == 0).count()
RECURSIVE leading_zeroes(_)
leading_zeroes(bytes) ==
    IF bytes = <<>> \/ Head(bytes) # 0 THEN 0 ELSE 1 + leading_zeroes(Tail(bytes))

\* mutant: `len as u32`, which drops the high bytes
u32_try_from_truncating(x) == Some(SubSeq(x, 1, 4))

\* u32::try_from(usize): Some(the low four bytes) when the rest is zero
u32_try_from(x) ==
    IF \A i \in 5..Len(x) : x[i] = 0 THEN Some(SubSeq(x, 1, 4)) ELSE None

\* u8::try_from(usize) of a small number
u8_try_from(n) == IF n < 256 THEN Some(n) ELSE None

\* the sum of two images of one width, with the carry out of the top byte
RECURSIVE AddWithCarry(_, _, _)
AddWithCarry(x, y, carry) ==
    IF x = <<>> THEN [bytes |-> <<>>, carry |-> carry]
    ELSE LET s == Head(x) + Head(y) + carry
             rest == AddWithCarry(Tail(x), Tail(y), s \div 256)
         IN [bytes |-> <<s % 256>> \o rest.bytes, carry |-> rest.carry]

\* mutant: usize::wrapping_add
checked_add_wrapping(x, y) == Some(AddWithCarry(x, y, 0).bytes)

\* usize::checked_add
checked_add(x, y) ==
    LET s == AddWithCarry(x, y, 0)
    IN IF s.carry = 0 THEN Some(s.bytes) ELSE None

(***************************************************************************)
(* The encoders.  E is the record [buffer, stack, panicked]; an operator   *)
(* named after a method acts on the encoder on top of E.stack.             *)
(***************************************************************************)
Enc(b, s, p) == [buffer |-> b, stack |-> s, panicked |-> p]

Top(E) == E.stack[Len(E.stack)]
Pop(E) == [E EXCEPT !.stack = SubSeq(@, 1, Len(@) - 1)]
Push(E, e) == [E EXCEPT !.stack = Append(@, e)]
SetTop(E, e) == [E EXCEPT !.stack[Len(E.stack)] = e]

\* Buffer::write of the Vec-backed buffer
write(E, bytes) == [E EXCEPT !.buffer = @ \o bytes]

panic(E) == [E EXCEPT !.panicked = TRUE]

\* mutant: the leading zero bytes of a big length are kept
encode_len_unstripped(E, len) ==
    LET len_32 == u32_try_from(len)
    IN IF len_32 # None
       THEN write(write(E, to_be_bytes(len_32[1])), <<LEN_32>>)
       ELSE LET l == to_be_bytes(len)
                len_of_len == u8_try_from(Len(l))
            IN IF len_of_len = None
               THEN panic(E)
               ELSE write(write(write(E, l), <<len_of_len[1]>>), <<BIGLEN>>)

encode_len(E, len) ==
    LET len_32 == u32_try_from(len)
    IN IF len_32 # None
       THEN write(write(E, to_be_bytes(len_32[1])), <<LEN_32>>)
       ELSE LET be == to_be_bytes(len)
                l == SubSeq(be, leading_zeroes(be) + 1, Len(be))
                len_of_len == u8_try_from(Len(l))
            IN IF len_of_len = None
               THEN panic(E)
               ELSE write(write(write(E, l), <<len_of_len[1]>>), <<BIGLEN>>)

EncodeValue_new(E) == Push(E, [type |-> "EncodeValue"])

EncodeLeaf_new(E) == Push(E, [type |-> "EncodeLeaf", len |-> usize(0), tag |-> None])

EncodeList_new(E) == Push(E, [type |-> "EncodeList", len |-> usize(0), tag |-> None])

EncodeStruct_new(E) ==
    LET l == EncodeList_new(E)
    IN SetTop(l, [type |-> "EncodeStruct", list |-> Top(l)])

EncodeEnum_new(E) == Push(E, [type |-> "EncodeEnum"])

\* the encode_* methods consume the EncodeValue
EncodeValue_encode_list(E) == EncodeList_new(Pop(E))
EncodeValue_encode_leaf(E) == EncodeLeaf_new(Pop(E))
EncodeValue_encode_struct(E) == EncodeStruct_new(Pop(E))
EncodeValue_encode_enum(E) == EncodeEnum_new(Pop(E))

\* mutant: an empty tag is taken for no tag
EncodeLeaf_set_tag_unless_empty(E, tag) ==
    IF tag = <<>> THEN E ELSE SetTop(E, [Top(E) EXCEPT !.tag = Some(tag)])

EncodeLeaf_set_tag(E, tag) == SetTop(E, [Top(E) EXCEPT !.tag = Some(tag)])
EncodeLeaf_with_tag(E, tag) == EncodeLeaf_set_tag(E, tag)

\* mutant: the bytes are put in front of what the buffer holds
EncodeLeaf_update_in_front(E, bytes) ==
    LET w == [E EXCEPT !.buffer = bytes \o @]
        len == checked_add(Top(w).len, usize(Len(bytes)))
    IN IF len = None THEN panic(w) ELSE SetTop(w, [Top(w) EXCEPT !.len = len[1]])

\* the bytes are written before the length is added up
EncodeLeaf_update(E, bytes) ==
    LET w == write(E, bytes)
        len == checked_add(Top(w).len, usize(Len(bytes)))
    IN IF len = None THEN panic(w) ELSE SetTop(w, [Top(w) EXCEPT !.len = len[1]])

\* mutant: the bytes are forwarded and not counted
EncodeLeaf_chain_uncounted(E, bytes) == write(E, bytes)

\* chain is update returning self
EncodeLeaf_chain(E, bytes) == EncodeLeaf_update(E, bytes)

\* mutant: the tag is written without its length
EncodeLeaf_drop_unmeasured_tag(E) ==
    LET self == Top(E)
        l == encode_len(Pop(E), self.len)
    IN IF self.tag # None
       THEN write(write(l, self.tag[1]), <<LEAF_CTX>>)
       ELSE write(l, <<LEAF>>)

EncodeLeaf_drop(E) ==
    LET self == Top(E)
        l == encode_len(Pop(E), self.len)
    IN IF self.tag # None
       THEN write(encode_len(write(l, self.tag[1]), usize(Len(self.tag[1]))), <<LEAF_CTX>>)
       ELSE write(l, <<LEAF>>)

EncodeLeaf_finish(E) == EncodeLeaf_drop(E)

\* mutant: a tag that is set stays
EncodeList_set_tag_once(E, tag) ==
    IF Top(E).tag # None THEN E ELSE SetTop(E, [Top(E) EXCEPT !.tag = Some(tag)])

EncodeList_set_tag(E, tag) == SetTop(E, [Top(E) EXCEPT !.tag = Some(tag)])
EncodeList_with_tag(E, tag) == EncodeList_set_tag(E, tag)

EncodeList_add_item(E) ==
    LET len == checked_add(Top(E).len, usize(1))
    IN IF len = None THEN panic(E)
       ELSE EncodeValue_new(SetTop(E, [Top(E) EXCEPT !.len = len[1]]))

\* a panic leaves the rest of a method body unexecuted
AndThen(E, Op(_)) == IF E.panicked THEN E ELSE Op(E)

EncodeList_add_leaf(E) == AndThen(EncodeList_add_item(E), EncodeValue_encode_leaf)
EncodeList_add_list(E) == AndThen(EncodeList_add_item(E), EncodeValue_encode_list)

\* mutant: the list closes with the leaf's symbols
EncodeList_drop_as_leaf(E) ==
    LET self == Top(E)
        l == encode_len(Pop(E), self.len)
    IN IF self.tag # None
       THEN write(encode_len(write(l, self.tag[1]), usize(Len(self.tag[1]))), <<LEAF_CTX>>)
       ELSE write(l, <<LEAF>>)

EncodeList_drop(E) ==
    LET self == Top(E)
        l == encode_len(Pop(E), self.len)
    IN IF self.tag # None
       THEN write(encode_len(write(l, self.tag[1]), usize(Len(self.tag[1]))), <<LIST_CTX>>)
       ELSE write(l, <<LIST>>)

EncodeList_finish(E) == EncodeList_drop(E)

\* E with the EncodeStruct on top replaced by its list field, and back at depth d
Unwrap(E) == SetTop(E, Top(E).list)
Wrap(E, d) == [E EXCEPT !.stack[d] = [type |-> "EncodeStruct", list |-> @]]

EncodeStruct_set_tag(E, tag) ==
    Wrap(EncodeList_set_tag(Unwrap(E), tag), Len(E.stack))
EncodeStruct_with_tag(E, tag) == EncodeStruct_set_tag(E, tag)

\* the temporary leaf of the first statement is dropped at the end of it
\* mutant: the name is written as a leaf that the list does not count
EncodeStruct_add_field_uncounted_name(E, field_name) ==
    LET chain(l) == EncodeLeaf_chain(l, field_name)
        named == AndThen(AndThen(EncodeLeaf_new(Unwrap(E)), chain), EncodeLeaf_drop)
    IN Wrap(AndThen(named, EncodeList_add_item), Len(E.stack))

EncodeStruct_add_field(E, field_name) ==
    LET chain(l) == EncodeLeaf_chain(l, field_name)
        named == AndThen(AndThen(EncodeList_add_leaf(Unwrap(E)), chain), EncodeLeaf_drop)
    IN Wrap(AndThen(named, EncodeList_add_item), Len(E.stack))

\* EncodeStruct has no Drop of its own: dropping it drops the list
EncodeStruct_drop(E) == EncodeList_drop(Unwrap(E))
EncodeStruct_finish(E) == EncodeStruct_drop(E)

\* "variant"
VariantKey == <<118, 97, 114, 105, 97, 110, 116>>

\* mutant: the variant name is added as an item without the "variant" name
EncodeEnum_with_variant_bare(E, variant_name) ==
    LET s == EncodeStruct_new(Pop(E))
        chain(l) == EncodeLeaf_chain(l, variant_name)
        f == Wrap(EncodeList_add_leaf(Unwrap(s)), Len(s.stack))
    IN AndThen(AndThen(f, chain), EncodeLeaf_drop)

EncodeEnum_with_variant(E, variant_name) ==
    LET s == EncodeStruct_new(Pop(E))
        chain(l) == EncodeLeaf_chain(l, variant_name)
        f == AndThen(EncodeStruct_add_field(s, VariantKey), EncodeValue_encode_leaf)
    IN AndThen(AndThen(f, chain), EncodeLeaf_drop)

\* the encoder on top goes out of scope: a leaf and a list write their
\* suffix, a struct drops its list, a value and an enum have no Drop
drop_in_place(E) ==
    CASE Top(E).type = "EncodeLeaf" -> EncodeLeaf_drop(E)
      [] Top(E).type = "EncodeList" -> EncodeList_drop(E)
      [] Top(E).type = "EncodeStruct" -> EncodeStruct_drop(E)
      [] OTHER -> Pop(E)

\* mutant: unwinding frees the encoders without running their Drop
RECURSIVE unwind_forgetting(_)
unwind_forgetting(E) ==
    IF E.stack = <<>> THEN panic(E) ELSE unwind_forgetting(Pop(E))

\* a panic unwinds the stack: the live encoders are dropped, innermost
\* first; a panic raised by one of these drops aborts the process
RECURSIVE unwind(_)
unwind(E) ==
    IF E.stack = <<>> THEN panic(E)
    ELSE LET dropped == drop_in_place([E EXCEPT !.panicked = FALSE])
         IN IF dropped.panicked THEN dropped ELSE unwind(dropped)

(***************************************************************************)
(* History: the value tree the calls made so far describe.  A node is a    *)
(* leaf (its bytes), a list (its items), a struct or enum (the names that  *)
(* add_field was given, in call order, the values the fields were given as *)
(* its items, and with_variant's name) or a hole (an EncodeValue or        *)
(* EncodeEnum that was dropped unused).                                    *)
(***************************************************************************)
Node(kind, bytes, items, tag, names, variant) ==
    [kind |-> kind, bytes |-> bytes, items |-> items, tag |-> tag,
     names |-> names, variant |-> variant]

LeafNode(bytes, tag) == Node("leaf", bytes, <<>>, tag, <<>>, None)
ListNode(items, tag) == Node("list", <<>>, items, tag, <<>>, None)
StructNode(items, tag, names) == Node("struct", <<>>, items, tag, names, None)
EnumNode(items, tag, names, variant) == Node("enum", <<>>, items, tag, names, Some(variant))
HoleNode == Node("hole", <<>>, <<>>, None, <<>>, None)
\* an EncodeValue or EncodeEnum that has not been turned into anything yet
Pending == Node("pending", <<>>, <<>>, None, <<>>, None)

\* what the callers of the model hand to the encoders
Fragments == SeqsUpTo(ByteSamples, MaxFrag)
\* "T"
Tags == SeqsUpTo({84}, MaxTagLen)
\* "a" and "b"
FieldNames == {<<97>>, <<98>>}
\* "S"
VariantNames == {<<83>>}

Real == Enc(buffer, stack, panicked)
Commit(E) == buffer' = E.buffer /\ stack' = E.stack /\ panicked' = E.panicked
TopIs(type) == ~panicked /\ stack # <<>> /\ Top(Real).type = type
ShTop == shadow[Len(shadow)]
SetShTop(n) == shadow' = [shadow EXCEPT ![Len(shadow)] = n]

\* the encoder on top is gone: its value joins its parent's items
Close(tree) ==
    LET rest == SubSeq(shadow, 1, Len(shadow) - 1)
    IN IF rest = <<>>
       THEN shadow' = <<>> /\ result' = Some(tree)
       ELSE /\ shadow' = [rest EXCEPT ![Len(rest)].items = Append(@, tree)]
            /\ UNCHANGED result

Init ==
    /\ buffer = <<>>
    /\ stack = EncodeValue_new(Enc(<<>>, <<>>, FALSE)).stack
    /\ panicked = FALSE
    /\ shadow = <<Pending>>
    /\ result = None
    /\ nodes = 1
    /\ fed = 0
    /\ tagged = 0
    /\ fields = 0
    /\ lenIn = None
    /\ intIn = None
    /\ valIn = None
    /\ out = None

Idle == UNCHANGED <<fields, lenIn, intIn, valIn, out>>
IdleInputs == UNCHANGED <<lenIn, intIn, valIn, out>>

encode_leaf ==
    /\ TopIs("EncodeValue")
    /\ Commit(EncodeValue_encode_leaf(Real))
    /\ SetShTop(LeafNode(<<>>, None))
    /\ UNCHANGED <<result, nodes, fed, tagged>> /\ Idle

encode_list ==
    /\ TopIs("EncodeValue")
    /\ Commit(EncodeValue_encode_list(Real))
    /\ SetShTop(ListNode(<<>>, None))
    /\ UNCHANGED <<result, nodes, fed, tagged>> /\ Idle

encode_struct ==
    /\ TopIs("EncodeValue")
    /\ Commit(EncodeValue_encode_struct(Real))
    /\ SetShTop(StructNode(<<>>, None, <<>>))
    /\ UNCHANGED <<result, nodes, fed, tagged>> /\ Idle

encode_enum ==
    /\ TopIs("EncodeValue")
    /\ Commit(EncodeValue_encode_enum(Real))
    /\ UNCHANGED <<shadow, result, nodes, fed, tagged>> /\ Idle

\* an EncodeValue or an EncodeEnum goes out of scope unused: neither has a Drop
drop_unused ==
    /\ TopIs("EncodeValue") \/ TopIs("EncodeEnum")
    /\ Commit(Pop(Real))
    /\ Close(HoleNode)
    /\ UNCHANGED <<nodes, fed, tagged>> /\ Idle

with_variant(variant_name) ==
    /\ TopIs("EncodeEnum")
    /\ Commit(EncodeEnum_with_variant(Real, variant_name))
    /\ SetShTop(EnumNode(<<>>, None, <<>>, variant_name))
    /\ UNCHANGED <<result, nodes, fed, tagged>> /\ Idle

\* update, and chain, which is update returning self
leaf_update(bytes) ==
    /\ TopIs("EncodeLeaf")
    /\ fed + Len(bytes) <= MaxContent
    /\ Commit(EncodeLeaf_update(Real, bytes))
    /\ SetShTop([ShTop EXCEPT !.bytes = @ \o bytes])
    /\ fed' = fed + Len(bytes)
    /\ UNCHANGED <<result, nodes, tagged>> /\ Idle

\* set_tag, and with_tag, which is set_tag returning self
leaf_set_tag_within(limit, tag) ==
    /\ TopIs("EncodeLeaf")
    /\ tagged < limit
    /\ Commit(EncodeLeaf_set_tag(Real, tag))
    /\ SetShTop([ShTop EXCEPT !.tag = Some(tag)])
    /\ tagged' = tagged + 1
    /\ UNCHANGED <<result, nodes, fed>> /\ Idle

leaf_set_tag(tag) == leaf_set_tag_within(MaxSetTag, tag)

\* finish, or the end of the leaf's scope
leaf_finish ==
    /\ TopIs("EncodeLeaf")
    /\ Commit(EncodeLeaf_finish(Real))
    /\ Close([ShTop EXCEPT !.tag = Top(Real).tag])
    /\ UNCHANGED <<nodes, fed, tagged>> /\ Idle

list_set_tag_within(limit, tag) ==
    /\ TopIs("EncodeList")
    /\ tagged < limit
    /\ Commit(EncodeList_set_tag(Real, tag))
    /\ SetShTop([ShTop EXCEPT !.tag = Some(tag)])
    /\ tagged' = tagged + 1
    /\ UNCHANGED <<result, nodes, fed>> /\ Idle

list_set_tag(tag) == list_set_tag_within(MaxSetTag, tag)

list_add_item ==
    /\ TopIs("EncodeList")
    /\ nodes < MaxNodes
    /\ Commit(EncodeList_add_item(Real))
    /\ shadow' = Append(shadow, Pending)
    /\ nodes' = nodes + 1
    /\ UNCHANGED <<result, fed, tagged>> /\ Idle

list_add_leaf ==
    /\ TopIs("EncodeList")
    /\ nodes < MaxNodes
    /\ Commit(EncodeList_add_leaf(Real))
    /\ shadow' = Append(shadow, LeafNode(<<>>, None))
    /\ nodes' = nodes + 1
    /\ UNCHANGED <<result, fed, tagged>> /\ Idle

list_add_list ==
    /\ TopIs("EncodeList")
    /\ nodes < MaxNodes
    /\ Commit(EncodeList_add_list(Real))
    /\ shadow' = Append(shadow, ListNode(<<>>, None))
    /\ nodes' = nodes + 1
    /\ UNCHANGED <<result, fed, tagged>> /\ Idle

list_finish ==
    /\ TopIs("EncodeList")
    /\ Commit(EncodeList_finish(Real))
    /\ Close([ShTop EXCEPT !.tag = Top(Real).tag])
    /\ UNCHANGED <<nodes, fed, tagged>> /\ Idle

struct_set_tag(tag) ==
    /\ TopIs("EncodeStruct")
    /\ tagged < MaxSetTag
    /\ Commit(EncodeStruct_set_tag(Real, tag))
    /\ SetShTop([ShTop EXCEPT !.tag = Some(tag)])
    /\ tagged' = tagged + 1
    /\ UNCHANGED <<result, nodes, fed>> /\ Idle

struct_add_field(field_name) ==
    /\ TopIs("EncodeStruct")
    /\ fields < MaxFields
    /\ Commit(EncodeStruct_add_field(Real, field_name))
    /\ shadow' = Append([shadow EXCEPT ![Len(shadow)].names = Append(@, field_name)],
                        Pending)
    /\ fields' = fields + 1
    /\ UNCHANGED <<result, nodes, fed, tagged>> /\ IdleInputs

struct_finish ==
    /\ TopIs("EncodeStruct")
    /\ Commit(EncodeStruct_finish(Real))
    /\ Close([ShTop EXCEPT !.tag = Top(Real).list.tag])
    /\ UNCHANGED <<nodes, fed, tagged>> /\ Idle

\* the tag the encoder e holds
TagOf(e) ==
    CASE e.type \in {"EncodeLeaf", "EncodeList"} -> e.tag
      [] e.type = "EncodeStruct" -> e.list.tag
      [] OTHER -> None

\* the value the live encoders leave behind when all of them are dropped
RECURSIVE Abandoned(_, _)
Abandoned(sh, st) ==
    LET n == Len(sh)
        top == IF sh[n].kind = "pending" THEN HoleNode
               ELSE [sh[n] EXCEPT !.tag = TagOf(st[n])]
    IN IF n = 1 THEN top
       ELSE Abandoned([SubSeq(sh, 1, n - 1) EXCEPT ![n - 1].items = Append(@, top)],
                      SubSeq(st, 1, n - 1))

\* the caller's code panics between two calls while encoders are live (an
\* item's own unambiguously_encode, an iterator), and the stack unwinds
panic_unwind ==
    /\ ~panicked /\ stack # <<>>
    /\ Commit(unwind(Real))
    /\ shadow' = <<>>
    /\ result' = Some(Abandoned(shadow, stack))
    /\ UNCHANGED <<nodes, fed, tagged>> /\ Idle

(***************************************************************************)
(* Spec: a caller drives the value, leaf and list encoders.                *)
(***************************************************************************)
Next ==
    \/ encode_leaf
    \/ encode_list
    \/ drop_unused
    \/ \E bytes \in Fragments : leaf_update(bytes)
    \/ \E tag \in Tags : leaf_set_tag(tag)
    \/ leaf_finish
    \/ \E tag \in Tags : list_set_tag(tag)
    \/ list_add_item
    \/ list_add_leaf
    \/ list_add_list
    \/ list_finish

Spec == Init /\ [][Next]_vars

(***************************************************************************)
(* SpecStruct: a caller drives the struct and enum encoders, giving each   *)
(* field a leaf, a struct or an enum.                                      *)
(***************************************************************************)
NextStruct ==
    \/ encode_struct
    \/ encode_enum
    \/ \E variant_name \in VariantNames : with_variant(variant_name)
    \/ \E tag \in Tags : struct_set_tag(tag)
    \/ \E field_name \in FieldNames : struct_add_field(field_name)
    \/ struct_finish
    \/ encode_leaf
    \/ \E bytes \in Fragments : leaf_update(bytes)
    \/ leaf_finish
    \/ drop_unused

SpecStruct == Init /\ [][NextStruct]_vars

(***************************************************************************)
(* SpecUnwind: the caller of Spec, whose own code may panic at any point.  *)
(***************************************************************************)
NextUnwind ==
    \/ encode_leaf
    \/ encode_list
    \/ drop_unused
    \/ \E bytes \in Fragments : leaf_update(bytes)
    \/ \E tag \in Tags : leaf_set_tag(tag)
    \/ leaf_finish
    \/ \E tag \in Tags : list_set_tag(tag)
    \/ list_add_item
    \/ list_add_leaf
    \/ list_add_list
    \/ list_finish
    \/ panic_unwind

SpecUnwind == Init /\ [][NextUnwind]_vars

(***************************************************************************)
(* What the claims are stated with.                                        *)
(***************************************************************************)
Finished == stack = <<>> /\ result # None /\ ~panicked

RECURSIVE HoleFree(_)
HoleFree(t) ==
    /\ t.kind # "hole"
    /\ \A i \in 1..Len(t.items) : HoleFree(t.items[i])

RECURSIVE Untagged(_)
Untagged(t) ==
    /\ t.tag = None
    /\ \A i \in 1..Len(t.items) : Untagged(t.items[i])

\* the calls of tests/encoding.rs for a given tree: the tag first, then the
\* content (chain) or the items (add_leaf, add_list), then finish
RECURSIVE FillLeaf(_, _), FillList(_, _), FillItems(_, _)
FillLeaf(E, t) ==
    LET with_tag(l) == IF t.tag # None THEN EncodeLeaf_with_tag(l, t.tag[1]) ELSE l
        chain(l) == EncodeLeaf_chain(l, t.bytes)
    IN AndThen(AndThen(AndThen(E, with_tag), chain), EncodeLeaf_finish)
FillList(E, t) ==
    LET with_tag(l) == IF t.tag # None THEN EncodeList_with_tag(l, t.tag[1]) ELSE l
        items(l) == FillItems(l, t.items)
    IN AndThen(AndThen(AndThen(E, with_tag), items), EncodeList_finish)
FillItems(E, items) ==
    IF items = <<>> THEN E
    ELSE LET item(l) == IF Head(items).kind = "leaf"
                        THEN FillLeaf(EncodeList_add_leaf(l), Head(items))
                        ELSE FillList(EncodeList_add_list(l), Head(items))
             rest(l) == FillItems(l, Tail(items))
         IN AndThen(AndThen(E, item), rest)

Fresh == Enc(<<>>, <<>>, FALSE)
Encoded(t) ==
    IF t.kind = "leaf" THEN FillLeaf(EncodeLeaf_new(Fresh), t).buffer
    ELSE FillList(EncodeList_new(Fresh), t).buffer

\* the number a 4-byte big-endian field ending at b[e] holds
Num4(b, e) == ((b[e - 3] * 256 + b[e - 2]) * 256 + b[e - 1]) * 256 + b[e]

\* Reading a byte string backwards from its last byte as one value: the type
\* byte, the lengths, then the content or the items, last item first.
\* [ok, tree, next]: next is the index just before the value's first byte.
NoParse == [ok |-> FALSE, tree |-> HoleNode, next |-> 0]
RECURSIVE ParseValue(_, _), ParseItems(_, _, _)
ParseValue(b, e) ==
    IF e < 6 \/ b[e] \notin {1, 2, 3, 4} \/ b[e - 1] # 5 THEN NoParse
    ELSE LET ctx == b[e] \in {2, 4}
             tn == IF ctx THEN Num4(b, e - 2) ELSE 0
             \* the index of the 5 that closes the content length or item count
             c == IF ctx THEN e - 6 - tn ELSE e - 1
         IN IF c < 5 \/ b[c] # 5 THEN NoParse
            ELSE LET tag == IF ctx THEN Some(SubSeq(b, e - 5 - tn, e - 6)) ELSE None
                     n == Num4(b, c - 1)
                 IN IF b[e] \in {3, 4}
                    THEN IF c - 5 - n < 0 THEN NoParse
                         ELSE [ok |-> TRUE,
                               tree |-> LeafNode(SubSeq(b, c - 4 - n, c - 5), tag),
                               next |-> c - 5 - n]
                    ELSE LET items == ParseItems(b, c - 5, n)
                         IN IF ~items.ok THEN NoParse
                            ELSE [ok |-> TRUE, tree |-> ListNode(items.tree, tag),
                                  next |-> items.next]
ParseItems(b, e, k) ==
    IF k = 0 THEN [ok |-> TRUE, tree |-> <<>>, next |-> e]
    ELSE LET last == ParseValue(b, e)
         IN IF ~last.ok THEN NoParse
            ELSE LET rest == ParseItems(b, last.next, k - 1)
                 IN IF ~rest.ok THEN NoParse
                    ELSE [ok |-> TRUE, tree |-> Append(rest.tree, last.tree),
                          next |-> rest.next]

\* the one value a byte string is the encoding of, if any
Parse(b) ==
    LET v == ParseValue(b, Len(b))
    IN IF v.ok /\ v.next = 0 THEN Some(v.tree) ELSE None

\* ["12", "3"], ["1", "23"], ["1", [], "2"] and ["1", "2"]
Ex12_3 == ListNode(<<LeafNode(<<49, 50>>, None), LeafNode(<<51>>, None)>>, None)
Ex1_23 == ListNode(<<LeafNode(<<49>>, None), LeafNode(<<50, 51>>, None)>>, None)
Ex1_e_2 == ListNode(<<LeafNode(<<49>>, None), ListNode(<<>>, None), LeafNode(<<50>>, None)>>, None)
Ex1_2 == ListNode(<<LeafNode(<<49>>, None), LeafNode(<<50>>, None)>>, None)

C1_Examples ==
    /\ Encoded(Ex12_3) # Encoded(Ex1_23)
    /\ Encoded(Ex1_e_2) # Encoded(Ex1_2)

\* C1: the encoding is injective.  Every finished run's buffer reads back,
\* from its last byte, as exactly the tree of leaves and lists (tags included)
\* that the run encoded, so no two distinct trees leave the same bytes; and
\* ["12","3"] differs from ["1","23"], ["1",[],"2"] from ["1","2"].
C1_Injective ==
    /\ (Finished /\ HoleFree(result[1])) => Parse(buffer) = result
    /\ C1_Examples

\* a finished list of two leaves whose bytes, joined, are those of one leaf
C1_Witness ==
    /\ Finished
    /\ result[1].kind = "list"
    /\ Len(result[1].items) = 2
    /\ \A i \in 1..2 : result[1].items[i].kind = "leaf" /\ Len(result[1].items[i].bytes) = 1

\* the 4-byte big-endian form of a number below 2^31
BE4(n) == <<(n \div 16777216) % 256, (n \div 65536) % 256, (n \div 256) % 256, n % 256>>

RECURSIVE Flatten(_)
Flatten(ss) == IF ss = <<>> THEN <<>> ELSE Head(ss) \o Flatten(Tail(ss))

\* the byte string the grammar gives a hole-free tree: content or items, the
\* length or count, 5, then 3/1, or the tag, its length, 5 and 4/2
RECURSIVE GrammarBytes(_)
GrammarBytes(t) ==
    LET leaf == t.kind = "leaf"
        body == IF leaf THEN t.bytes
                ELSE Flatten([i \in 1..Len(t.items) |-> GrammarBytes(t.items[i])])
        counted == body \o BE4(IF leaf THEN Len(t.bytes) ELSE Len(t.items)) \o <<5>>
    IN IF t.tag = None
       THEN counted \o (IF leaf THEN <<3>> ELSE <<1>>)
       ELSE counted \o t.tag[1] \o BE4(Len(t.tag[1])) \o <<5>> \o (IF leaf THEN <<4>> ELSE <<2>>)

\* ["1234", ["1", "2"], "abc"]
Ex1234 ==
    ListNode(<<LeafNode(<<49, 50, 51, 52>>, None),
               ListNode(<<LeafNode(<<49>>, None), LeafNode(<<50>>, None)>>, None),
               LeafNode(<<97, 98, 99>>, None)>>, None)

C2_Example ==
    Encoded(Ex1234) =
        <<49, 50, 51, 52>> \o <<0, 0, 0, 4, 5, 3>>
        \o <<49>> \o <<0, 0, 0, 1, 5, 3>> \o <<50>> \o <<0, 0, 0, 1, 5, 3>>
        \o <<0, 0, 0, 2, 5, 1>>
        \o <<97, 98, 99>> \o <<0, 0, 0, 3, 5, 3>>
        \o <<0, 0, 0, 3, 5, 1>>

\* C2: a finished run that set no tag has written, for a leaf, its content,
\* the 4-byte big-endian length, 5 and 3, and for a list its items' encodings
\* in the order added, the 4-byte big-endian count, 5 and 1; and the list
\* ["1234", ["1","2"], "abc"] gives the bytes of the simple_encoding test.
C2_UntaggedBytes ==
    /\ (Finished /\ HoleFree(result[1]) /\ Untagged(result[1]))
           => buffer = GrammarBytes(result[1])
    /\ C2_Example

\* an untagged list holding a list that holds a non-empty leaf
C2_Witness ==
    /\ Finished
    /\ Untagged(result[1])
    /\ result[1].kind = "list" /\ Len(result[1].items) = 1
    /\ result[1].items[1].kind = "list" /\ Len(result[1].items[1].items) = 1
    /\ result[1].items[1].items[1].kind = "leaf"
    /\ result[1].items[1].items[1].bytes # <<>>

\* "SOME_TAG" and "123"
SOME_TAG == <<83, 79, 77, 69, 95, 84, 65, 71>>
C3_Examples ==
    /\ Encoded(LeafNode(<<49, 50, 51>>, Some(SOME_TAG)))
           = <<49, 50, 51>> \o <<0, 0, 0, 3, 5>> \o SOME_TAG \o <<0, 0, 0, 8, 5, 4>>
    /\ Encoded(ListNode(<<>>, Some(SOME_TAG)))
           = <<0, 0, 0, 0, 5>> \o SOME_TAG \o <<0, 0, 0, 8, 5, 2>>

AllButLast(s) == SubSeq(s, 1, Len(s) - 1)

\* C3: a leaf or list that was given a tag ends with len(length or count),
\* the tag, len(tag length) and 4 (leaf) or 2 (list), and what precedes the
\* tag is the encoding of the same value without the tag, less its last byte.
C3_TaggedBytes ==
    /\ (Finished /\ HoleFree(result[1])) => buffer = GrammarBytes(result[1])
    /\ (Finished /\ HoleFree(result[1]) /\ result[1].tag # None)
           => LET plain == AllButLast(Encoded([result[1] EXCEPT !.tag = None]))
                  tag == result[1].tag[1]
              IN buffer = plain \o tag \o BE4(Len(tag)) \o <<5>>
                              \o (IF result[1].kind = "leaf" THEN <<4>> ELSE <<2>>)
    /\ C3_Examples

\* a list tagged "T" that holds a leaf
C3_Witness ==
    /\ Finished
    /\ result[1].kind = "list"
    /\ result[1].tag = Some(<<84>>)
    /\ Len(result[1].items) = 1
    /\ result[1].items[1].kind = "leaf"

(***************************************************************************)
(* SpecLen: encode_len is called once, on an empty buffer, with a sampled  *)
(* usize.                                                                  *)
(***************************************************************************)
\* the images with at most MaxNonZero non-zero bytes, each one of
\* DigitSamples, and 0xFFFFFFFF and usize::MAX
UsizeSamples ==
    {x \in [1..UsizeBytes -> DigitSamples] :
        Cardinality({i \in 1..UsizeBytes : x[i] # 0}) <= MaxNonZero}
    \cup {[i \in 1..UsizeBytes |-> IF i <= 4 THEN 255 ELSE 0],
          [i \in 1..UsizeBytes |-> 255]}

InitLen ==
    /\ buffer = <<>>
    /\ stack = <<>>
    /\ panicked = FALSE
    /\ shadow = <<>>
    /\ result = None
    /\ nodes = 0
    /\ fed = 0
    /\ tagged = 0
    /\ fields = 0
    /\ lenIn \in {Some(x) : x \in UsizeSamples}
    /\ intIn = None
    /\ valIn = None
    /\ out = None

call_encode_len ==
    /\ lenIn # None /\ result = None
    /\ Commit(encode_len(Real, lenIn[1]))
    /\ result' = Some("returned")
    /\ UNCHANGED <<shadow, nodes, fed, tagged, fields, lenIn, intIn, valIn, out>>

NextLen == call_encode_len

SpecLen == InitLen /\ [][NextLen]_vars

LenReturned == lenIn # None /\ result # None

\* x <= y as numbers, for two images of one width
RECURSIVE LeqFrom(_, _, _)
LeqFrom(x, y, i) ==
    IF i = 0 THEN TRUE
    ELSE IF x[i] # y[i] THEN x[i] < y[i]
    ELSE LeqFrom(x, y, i - 1)
Leq(x, y) == LeqFrom(x, y, Len(x))

U32_MAX == [i \in 1..UsizeBytes |-> IF i <= 4 THEN 255 ELSE 0]
\* 0x100000000
Two32 == [i \in 1..UsizeBytes |-> IF i = 5 THEN 1 ELSE 0]

\* how many bytes the number needs: the place of its highest non-zero byte
Significant(x) ==
    IF \A i \in 1..Len(x) : x[i] = 0 THEN 0
    ELSE CHOOSE k \in 1..Len(x) : x[k] # 0 /\ \A i \in (k + 1)..Len(x) : x[i] = 0

\* the big-endian bytes of the number, most significant non-zero byte first
Minimal(x) == [j \in 1..Significant(x) |-> x[Significant(x) + 1 - j]]

EncodeLenBytes == [x \in UsizeSamples |-> encode_len(Fresh, x).buffer]

\* C4: for n <= 0xFFFFFFFF encode_len writes the 4-byte big-endian n and 5,
\* five bytes in all; for a larger n the big-endian bytes of n without leading
\* zero bytes, their number, and 6.  0xFFFFFFFF takes the first form and
\* 0x100000000 gives 1 0 0 0 0 5 6.
C4_EncodeLen ==
    /\ LenReturned =>
        LET n == lenIn[1]
        IN IF Leq(n, U32_MAX)
           THEN buffer = <<n[4], n[3], n[2], n[1], 5>>
           ELSE buffer = Minimal(n) \o <<Len(Minimal(n)), 6>>
    /\ EncodeLenBytes[U32_MAX] = <<255, 255, 255, 255, 5>>
    /\ EncodeLenBytes[Two32] = <<1, 0, 0, 0, 0, 5, 6>>

\* encode_len has returned for a length above 0xFFFFFFFF whose lowest byte is set
C4_Witness ==
    /\ LenReturned
    /\ ~Leq(lenIn[1], U32_MAX)
    /\ lenIn[1][1] # 0

\* C5: no two lengths give the same bytes; and in the BIGLEN form the byte
\* before the 6 is between 5 and 8, so the panic is never raised.
C5_LenInjective ==
    LenReturned =>
        /\ ~panicked
        /\ \A m \in UsizeSamples : m # lenIn[1] => EncodeLenBytes[m] # buffer
        /\ buffer[Len(buffer)] = 6 => buffer[Len(buffer) - 1] \in 5..8

\* encode_len has returned for usize::MAX
C5_Witness ==
    /\ LenReturned
    /\ \A i \in 1..UsizeBytes : lenIn[1][i] = 255
    /\ buffer[Len(buffer)] = 6

(***************************************************************************)
(* Structs and enums as the claims state them.                             *)
(***************************************************************************)
\* the list a struct or enum stands for: ["variant", name,] then each field's
\* name as a leaf followed by its value, in the order of the add_field calls
RECURSIVE AsList(_)
AsList(t) ==
    IF t.kind \in {"leaf", "hole", "pending"} THEN t
    ELSE LET values == [i \in 1..Len(t.items) |-> AsList(t.items[i])]
         IN IF t.kind = "list" THEN ListNode(values, t.tag)
            ELSE LET head == IF t.kind = "enum"
                             THEN <<LeafNode(<<118, 97, 114, 105, 97, 110, 116>>, None),
                                    LeafNode(t.variant[1], None)>>
                             ELSE <<>>
                     pairs == [i \in 1..(2 * Len(t.names)) |->
                                 IF i % 2 = 1 THEN LeafNode(t.names[(i + 1) \div 2], None)
                                 ELSE values[i \div 2]]
                 IN ListNode(head \o pairs, t.tag)

\* the calls of the encode_struct test for a given struct: add_field, then
\* the field's value as a leaf, a list or a struct
RECURSIVE FillStruct(_, _), FillFields(_, _, _)
FillStruct(E, t) ==
    LET with_tag(l) == IF t.tag # None THEN EncodeStruct_with_tag(l, t.tag[1]) ELSE l
        fields_(l) == FillFields(l, t.names, t.items)
    IN AndThen(AndThen(AndThen(E, with_tag), fields_), EncodeStruct_finish)
FillFields(E, names, values) ==
    IF names = <<>> THEN E
    ELSE LET add(l) == EncodeStruct_add_field(l, Head(names))
             value(l) ==
                 CASE Head(values).kind = "leaf" ->
                          FillLeaf(EncodeValue_encode_leaf(l), Head(values))
                   [] Head(values).kind = "list" ->
                          FillList(EncodeValue_encode_list(l), Head(values))
                   [] OTHER -> FillStruct(EncodeValue_encode_struct(l), Head(values))
             rest(l) == FillFields(l, Tail(names), Tail(values))
         IN AndThen(AndThen(AndThen(E, add), value), rest)

\* the number in the length field of the value that ends the byte string b
WrittenCount(b) ==
    IF b[Len(b)] \in {1, 3} THEN Num4(b, Len(b) - 2)
    ELSE Num4(b, Len(b) - 7 - Num4(b, Len(b) - 2))

\* "name", "Alice", "skills", "math", "crypto", "job_title", "cryptographer"
S_name == <<110, 97, 109, 101>>
S_Alice == <<65, 108, 105, 99, 101>>
S_skills == <<115, 107, 105, 108, 108, 115>>
S_math == <<109, 97, 116, 104>>
S_crypto == <<99, 114, 121, 112, 116, 111>>
S_job_title == <<106, 111, 98, 95, 116, 105, 116, 108, 101>>
S_cryptographer == <<99, 114, 121, 112, 116, 111, 103, 114, 97, 112, 104, 101, 114>>
ExSkills == ListNode(<<LeafNode(S_math, None), LeafNode(S_crypto, None)>>, None)
ExAlice ==
    StructNode(<<LeafNode(S_Alice, None), ExSkills, LeafNode(S_cryptographer, None)>>,
               None, <<S_name, S_skills, S_job_title>>)
ExAliceList ==
    ListNode(<<LeafNode(S_name, None), LeafNode(S_Alice, None),
               LeafNode(S_skills, None), ExSkills,
               LeafNode(S_job_title, None), LeafNode(S_cryptographer, None)>>, None)

C6_Example ==
    LET bytes == FillStruct(EncodeStruct_new(Fresh), ExAlice).buffer
    IN /\ bytes = Encoded(ExAliceList)
       /\ bytes = GrammarBytes(ExAliceList)
       /\ WrittenCount(bytes) = 6

C7_EnumVariant ==
    /\ \A d \in 1..Len(stack) :
           shadow[d].kind = "enum" =>
               /\ stack[d].type = "EncodeStruct"
               /\ stack[d].list.len = usize(2 + 2 * Len(shadow[d].names))
    /\ (stack # <<>> /\ shadow[1].kind = "enum") =>
           LET head == GrammarBytes(LeafNode(<<118, 97, 114, 105, 97, 110, 116>>, None))
                       \o GrammarBytes(LeafNode(shadow[1].variant[1], None))
           IN Len(buffer) >= Len(head) /\ SubSeq(buffer, 1, Len(head)) = head
    /\ (Finished /\ result[1].kind = "enum") =>
           /\ WrittenCount(buffer) = 2 + 2 * Len(result[1].names)
           /\ HoleFree(result[1]) => buffer = GrammarBytes(AsList(result[1]))

\* a finished variant with one field
C7_Witness ==
    /\ Finished
    /\ result[1].kind = "enum"
    /\ Len(result[1].names) = 1
    /\ HoleFree(result[1])

(***************************************************************************)
(* Integers (lib.rs).  An integer is its memory image, least significant   *)
(* byte first, two's complement when signed; its width is the image's      *)
(* length.                                                                 *)
(***************************************************************************)
\* bytes of u8/i8, u16/i16, u32/i32, u64/i64/usize/isize, u128/i128
IntWidths == {1, 2, 4, 8, 16}

\* iN::is_negative, iN::is_positive, iN::wrapping_neg
is_negative(x) == x[Len(x)] >= 128
is_positive(x) == ~is_negative(x) /\ \E i \in 1..Len(x) : x[i] # 0
\* mutant: the complement of the bits, without the one added
wrapping_neg_not(x) == [i \in 1..Len(x) |-> 255 - x[i]]

wrapping_neg(x) ==
    AddWithCarry([i \in 1..Len(x) |-> 255 - x[i]], [i \in 1..Len(x) |-> 0], 1).bytes

\* mutant: the bits of the integer, read as unsigned
unsigned_abs_as_cast(x) == x

\* iN::unsigned_abs
unsigned_abs(x) == IF is_negative(x) THEN wrapping_neg(x) ELSE x

\* u8::from(bool)
u8_from(b) == IF b THEN 1 ELSE 0

\* EncodeValue::encode_leaf_value: the value is a leaf holding the bytes
EncodeValue_encode_leaf_value(E, bytes) ==
    LET chain(l) == EncodeLeaf_chain(l, bytes)
    IN AndThen(AndThen(EncodeValue_encode_leaf(E), chain), EncodeLeaf_finish)

\* mutant: the sign byte is left out
encode_signed_integer_unsigned(positive, abs_be_bytes, E) ==
    LET truncated_be_bytes ==
            SubSeq(abs_be_bytes, leading_zeroes(abs_be_bytes) + 1, Len(abs_be_bytes))
        magnitude(l) == EncodeLeaf_chain(l, truncated_be_bytes)
    IN IF truncated_be_bytes = <<>>
       THEN EncodeValue_encode_leaf_value(E, <<>>)
       ELSE AndThen(AndThen(EncodeValue_encode_leaf(E), magnitude), EncodeLeaf_finish)

encode_signed_integer(positive, abs_be_bytes, E) ==
    LET truncated_be_bytes ==
            SubSeq(abs_be_bytes, leading_zeroes(abs_be_bytes) + 1, Len(abs_be_bytes))
        sign(l) == EncodeLeaf_chain(l, <<u8_from(positive)>>)
        magnitude(l) == EncodeLeaf_chain(l, truncated_be_bytes)
    IN IF truncated_be_bytes = <<>>
       THEN EncodeValue_encode_leaf_value(E, <<>>)
       ELSE AndThen(AndThen(AndThen(EncodeValue_encode_leaf(E), sign), magnitude),
                    EncodeLeaf_finish)

\* mutant: every byte of the integer is kept
encode_unsigned_integer_unstripped(be_bytes, E) ==
    EncodeValue_encode_leaf_value(E, be_bytes)

encode_unsigned_integer(be_bytes, E) ==
    LET truncated_be_bytes == SubSeq(be_bytes, leading_zeroes(be_bytes) + 1, Len(be_bytes))
    IN EncodeValue_encode_leaf_value(E, truncated_be_bytes)

\* Digestable::unambiguously_encode of iN and of uN
signed_unambiguously_encode(x, E) ==
    encode_signed_integer(is_positive(x), to_be_bytes(unsigned_abs(x)), E)
unsigned_unambiguously_encode(x, E) ==
    encode_unsigned_integer(to_be_bytes(x), E)

\* the integers of one width that are digested: the low bytes are sampled and
\* the high ones are all 0 or all 255, or the integer is iN::MIN or iN::MAX
IntImages(w) ==
    LET k == IF w < MaxMagLen THEN w ELSE MaxMagLen
    IN {[i \in 1..w |-> IF i <= k THEN low[i] ELSE fill] :
            low \in [1..k -> DigitSamples], fill \in {0, 255}}
       \cup {[i \in 1..w |-> IF i = w THEN 128 ELSE 0],
             [i \in 1..w |-> IF i = w THEN 127 ELSE 255]}

InitInt ==
    /\ buffer = <<>>
    /\ stack = <<[type |-> "EncodeValue"]>>
    /\ panicked = FALSE
    /\ shadow = <<>>
    /\ result = None
    /\ nodes = 0
    /\ fed = 0
    /\ tagged = 0
    /\ fields = 0
    /\ lenIn = None
    /\ \E w \in IntWidths, signed \in BOOLEAN :
           \E x \in IntImages(w) : intIn = Some([signed |-> signed, image |-> x])
    /\ valIn = None
    /\ out = None

digest_signed ==
    /\ intIn # None /\ intIn[1].signed /\ TopIs("EncodeValue")
    /\ Commit(signed_unambiguously_encode(intIn[1].image, Real))
    /\ result' = Some("returned")
    /\ UNCHANGED <<shadow, nodes, fed, tagged, fields, lenIn, intIn, valIn, out>>

digest_unsigned ==
    /\ intIn # None /\ ~intIn[1].signed /\ TopIs("EncodeValue")
    /\ Commit(unsigned_unambiguously_encode(intIn[1].image, Real))
    /\ result' = Some("returned")
    /\ UNCHANGED <<shadow, nodes, fed, tagged, fields, lenIn, intIn, valIn, out>>

NextInt == digest_signed \/ digest_unsigned

SpecInt == InitInt /\ [][NextInt]_vars

(***************************************************************************)
(* Digestable values (lib.rs) and the DigestAs rules (as_.rs).  A value is *)
(* a record whose ty names its Rust type:                                  *)
(*   str (also String, CStr, CString) and Bytes   bytes                    *)
(*   uint, int                                    image                    *)
(*   bool                                         b                        *)
(*   Option                                       val: None or Some(v)     *)
(*   Result                                       ok, val                  *)
(*   tuple, slice, array, Vec, LinkedList,                                 *)
(*   VecDeque                                     items, in order          *)
(*   BTreeSet                                     elems, a set             *)
(*   BTreeMap                                     entries, a set of <<k,v>>*)
(*   HashSet, HashMap                             order: the elements or   *)
(*                                                entries as iter() of     *)
(*                                                this instance yields them*)
(*   As                                           value, rule              *)
(*   struct                                       tag, fields              *)
(*   enum                                         name, fields             *)
(*   InlineStruct                                 fields_list, tag         *)
(* A rule is [of, rules]: Same, Bytes, or a container of rules.            *)
(***************************************************************************)
Str(bytes) == [ty |-> "str", bytes |-> bytes]
BytesOfT(bytes) == [ty |-> "Bytes", bytes |-> bytes]
UInt(image) == [ty |-> "uint", image |-> image]
SInt(image) == [ty |-> "int", image |-> image]
Bool(b) == [ty |-> "bool", b |-> b]
OptionNone == [ty |-> "Option", val |-> None]
OptionSome(v) == [ty |-> "Option", val |-> Some(v)]
ResultOk(v) == [ty |-> "Result", ok |-> TRUE, val |-> v]
ResultErr(v) == [ty |-> "Result", ok |-> FALSE, val |-> v]
Tuple(items) == [ty |-> "tuple", items |-> items]
SeqOf(ty, items) == [ty |-> ty, items |-> items]
BTreeSet(elems) == [ty |-> "BTreeSet", elems |-> elems]
BTreeMap(entries) == [ty |-> "BTreeMap", entries |-> entries]
HashSet(order) == [ty |-> "HashSet", order |-> order]
HashMap(order) == [ty |-> "HashMap", order |-> order]
As(value, rule) == [ty |-> "As", value |-> value, rule |-> rule]

Rule(of, rules) == [of |-> of, rules |-> rules]
Same == Rule("Same", <<>>)
BytesRule == Rule("Bytes", <<>>)

SeqTypes == {"slice", "array", "Vec", "LinkedList", "VecDeque"}

\* "Some", "None", "Ok", "Err" and "0"
S_Some == <<83, 111, 109, 101>>
S_None == <<78, 111, 110, 101>>
S_Ok == <<79, 107>>
S_Err == <<69, 114, 114>>
S_0 == <<48>>

\* <[u8] as Ord>::lt: the first byte that differs decides, a prefix is less
RECURSIVE slice_lt(_, _)
slice_lt(a, b) ==
    IF b = <<>> THEN FALSE
    ELSE IF a = <<>> THEN TRUE
    ELSE IF Head(a) # Head(b) THEN Head(a) < Head(b)
    ELSE slice_lt(Tail(a), Tail(b))

\* Ord of the key and element types: strings by their bytes, unsigned
\* integers of one width by value; As compares what it wraps
RECURSIVE lt(_, _)
lt(a, b) ==
    CASE a.ty = "As" -> lt(a.value, b.value)
      [] a.ty \in {"str", "Bytes"} -> slice_lt(a.bytes, b.bytes)
      [] a.ty = "uint" -> slice_lt(to_be_bytes(a.image), to_be_bytes(b.image))

\* BTreeSet::iter: the elements in ascending order
RECURSIVE BTreeSet_iter(_)
BTreeSet_iter(elems) ==
    IF elems = {} THEN <<>>
    ELSE LET first == CHOOSE x \in elems : \A y \in elems \ {x} : lt(x, y)
         IN <<first>> \o BTreeSet_iter(elems \ {first})

\* BTreeMap::iter: the entries in ascending order of their keys
RECURSIVE BTreeMap_iter(_)
BTreeMap_iter(entries) ==
    IF entries = {} THEN <<>>
    ELSE LET first == CHOOSE x \in entries : \A y \in entries \ {x} : lt(x[1], y[1])
         IN <<first>> \o BTreeMap_iter(entries \ {first})

\* mutant: the entries in the order the hash map yields them
collect_BTreeMap_unordered(order) == SeqOf("Vec", [i \in 1..Len(order) |-> Tuple(order[i])])

\* Iterator::collect into a BTreeSet and a BTreeMap
collect_BTreeSet(order) == BTreeSet({order[i] : i \in 1..Len(order)})
collect_BTreeMap(order) == BTreeMap({order[i] : i \in 1..Len(order)})

\* <Vec<u8> as AsRef<[u8]>>::as_ref, and that of the byte-string types
as_ref(value) ==
    IF value.ty \in {"str", "Bytes"} THEN value.bytes
    ELSE [i \in 1..Len(value.items) |-> value.items[i].image[1]]

\* mutant: the elements are left as they are, to encode themselves
map_As_unwrapped(items, rule) == items

\* Option::map and Iterator::map with As::<&T, &U>::new
map_As(items, rule) == [i \in 1..Len(items) |-> As(items[i], rule)]

RECURSIVE unambiguously_encode(_, _), digest_as(_, _, _)

\* every element gets an EncodeValue from add_item and encodes itself
RECURSIVE add_items(_, _)
add_items(E, items) ==
    IF items = <<>> THEN E
    ELSE LET item(l) == unambiguously_encode(Head(items), l)
             rest(l) == add_items(l, Tail(items))
         IN AndThen(AndThen(AndThen(E, EncodeList_add_item), item), rest)

\* mutant: a single element is encoded in place of the list
unambiguously_encode_iter_flat(E, iter) ==
    IF Len(iter) = 1 THEN unambiguously_encode(iter[1], E)
    ELSE LET items(l) == add_items(l, iter)
         IN AndThen(AndThen(EncodeValue_encode_list(E), items), EncodeList_drop)

\* the list is dropped at the end of the function
unambiguously_encode_iter(E, iter) ==
    LET items(l) == add_items(l, iter)
    IN AndThen(AndThen(EncodeValue_encode_list(E), items), EncodeList_drop)

\* String, str, CString, CStr: the leaf is dropped at the end of the statement
str_unambiguously_encode(value, E) ==
    LET chain(l) == EncodeLeaf_chain(l, value.bytes)
    IN AndThen(AndThen(EncodeValue_encode_leaf(E), chain), EncodeLeaf_drop)

\* mutant: the leading zero bytes are dropped, as an integer's are
Bytes_unambiguously_encode_stripped(value, E) == encode_unsigned_integer(value.bytes, E)

\* Digestable for Bytes<T>
Bytes_unambiguously_encode(value, E) == EncodeValue_encode_leaf_value(E, value.bytes)

bool_unambiguously_encode(value, E) ==
    unsigned_unambiguously_encode(<<u8_from(value.b)>>, E)

\* mutant: Some(value) is encoded as the value
Option_unambiguously_encode_transparent(value, E) ==
    IF value.val # None
    THEN unambiguously_encode(value.val[1], E)
    ELSE LET with_variant_(l) == EncodeEnum_with_variant(l, S_None)
         IN AndThen(AndThen(EncodeValue_encode_enum(E), with_variant_), EncodeStruct_drop)

\* the struct encoder is dropped at the end of the match arm
Option_unambiguously_encode(value, E) ==
    IF value.val # None
    THEN LET with_variant_(l) == EncodeEnum_with_variant(l, S_Some)
             add_field(l) == EncodeStruct_add_field(l, S_0)
             inner(l) == unambiguously_encode(value.val[1], l)
         IN AndThen(AndThen(AndThen(AndThen(EncodeValue_encode_enum(E),
                with_variant_), add_field), inner), EncodeStruct_drop)
    ELSE LET with_variant_(l) == EncodeEnum_with_variant(l, S_None)
         IN AndThen(AndThen(EncodeValue_encode_enum(E), with_variant_), EncodeStruct_drop)

Result_unambiguously_encode(value, E) ==
    LET with_variant_(l) == EncodeEnum_with_variant(l, IF value.ok THEN S_Ok ELSE S_Err)
        add_field(l) == EncodeStruct_add_field(l, S_0)
        inner(l) == unambiguously_encode(value.val, l)
    IN AndThen(AndThen(AndThen(AndThen(EncodeValue_encode_enum(E),
           with_variant_), add_field), inner), EncodeStruct_drop)

\* digestable_tuple!: the list is dropped at the end of the function
tuple_unambiguously_encode(value, E) ==
    LET items(l) == add_items(l, value.items)
    IN AndThen(AndThen(EncodeValue_encode_list(E), items), EncodeList_drop)

\* [T], [T; N], Vec, LinkedList, VecDeque
seq_unambiguously_encode(value, E) == unambiguously_encode_iter(E, value.items)

BTreeSet_unambiguously_encode(value, E) ==
    unambiguously_encode_iter(E, BTreeSet_iter(value.elems))

\* the iterator yields (&K, &V)
BTreeMap_unambiguously_encode(value, E) ==
    LET iter == BTreeMap_iter(value.entries)
    IN unambiguously_encode_iter(E, [i \in 1..Len(iter) |-> Tuple(iter[i])])

\* Digestable for As<T, U>
As_unambiguously_encode(value, E) == digest_as(value.rule, value.value, E)

\* a derived struct or enum (udigest-derive): the container's tag attribute
\* and the fields in declaration order, each with its name (or index), its
\* value and its attributes.  An enum value is one variant; a tag attribute
\* on an enum calls EncodeEnum::set_tag, which encoding.rs does not have, so
\* the enums of the model carry none.
FieldAttrs(as_bytes, skip, rename, with, as_) ==
    [as_bytes |-> as_bytes, skip |-> skip, rename |-> rename, with |-> with, as_ |-> as_]
FieldAttrs_default == FieldAttrs(None, None, None, None, None)
Field(mem, value, attrs) == [mem |-> mem, value |-> value, attrs |-> attrs]
Struct(tag, struct_fields) == [ty |-> "struct", tag |-> tag, fields |-> struct_fields]
Enum(variant_name, variant_fields) ==
    [ty |-> "enum", name |-> variant_name, fields |-> variant_fields]

\* InlineStruct (inline_struct.rs): Nil, or a Cons holding the field added
\* last and the list of the fields added before it
Nil == <<>>
cons(field_name, field_value, tail) ==
    <<[field_name |-> field_name, field_value |-> field_value, tail |-> tail]>>
InlineStruct(fields_list, tag) ==
    [ty |-> "InlineStruct", fields_list |-> fields_list, tag |-> tag]
InlineStruct_new == InlineStruct(Nil, None)
InlineStruct_add_field(self, field_name, field_value) ==
    InlineStruct(cons(field_name, field_value, self.fields_list), self.tag)
InlineStruct_set_tag(self, tag) == InlineStruct(self.fields_list, Some(tag))

\* "foo", "bar"
S_foo == <<102, 111, 111>>
S_bar == <<98, 97, 114>>
\* tests/derive.rs: the function a `with` attribute names
encode_bar(_bar, E) ==
    LET foo(l) == EncodeLeaf_chain(l, S_foo)
        bar(l) == EncodeLeaf_chain(l, S_bar)
    IN AndThen(AndThen(AndThen(AndThen(AndThen(AndThen(AndThen(
           EncodeValue_encode_list(E),
           EncodeList_add_leaf), foo), EncodeLeaf_drop),
           EncodeList_add_leaf), bar), EncodeLeaf_drop),
           EncodeList_finish)

\* the arm of encode_field that generates the field's code
encode_field_arm(field_attrs) ==
    IF field_attrs.skip # None THEN "skip"
    ELSE CASE field_attrs.as_bytes # None /\ field_attrs.with = None /\ field_attrs.as_ = None
                  -> "as_bytes"
           [] field_attrs.as_bytes = None /\ field_attrs.with # None /\ field_attrs.as_ = None
                  -> "with"
           [] field_attrs.as_bytes = None /\ field_attrs.with = None /\ field_attrs.as_ # None
                  -> "as"
           [] field_attrs.as_bytes = None /\ field_attrs.with = None /\ field_attrs.as_ = None
                  -> "unambiguously_encode"
           [] OTHER -> "unreachable"

\* mutant: a skipped field is encoded like any other
encode_field_unskipped(E, field_attrs, field_name, field_ref) ==
    LET arm == encode_field_arm([field_attrs EXCEPT !.skip = None])
        field_encoder ==
            EncodeStruct_add_field(E, IF field_attrs.rename = None THEN field_name
                                      ELSE field_attrs.rename[1])
    IN CASE field_encoder.panicked -> field_encoder
         [] arm = "as_bytes" /\ ~field_encoder.panicked ->
                EncodeValue_encode_leaf_value(field_encoder, as_ref(field_ref))
         [] arm = "with" /\ ~field_encoder.panicked -> encode_bar(field_ref, field_encoder)
         [] arm \in {"as", "unambiguously_encode"} /\ ~field_encoder.panicked ->
                unambiguously_encode(
                    IF arm = "as" THEN As(field_ref, field_attrs.as_[1]) ELSE field_ref,
                    field_encoder)

\* the code encode_field generates, run on the struct encoder on top of E
\* (<ty as DigestAs<T>>::digest_as is reached through Digestable for As,
\* whose body is that call)
encode_field(E, field_attrs, field_name, field_ref) ==
    LET arm == encode_field_arm(field_attrs)
        field_encoder ==
            EncodeStruct_add_field(E, IF field_attrs.rename = None THEN field_name
                                      ELSE field_attrs.rename[1])
    IN CASE arm = "skip" -> E
         [] arm # "skip" /\ field_encoder.panicked -> field_encoder
         [] arm = "as_bytes" /\ ~field_encoder.panicked ->
                EncodeValue_encode_leaf_value(field_encoder, as_ref(field_ref))
         [] arm = "with" /\ ~field_encoder.panicked -> encode_bar(field_ref, field_encoder)
         [] arm \in {"as", "unambiguously_encode"} /\ ~field_encoder.panicked ->
                unambiguously_encode(
                    IF arm = "as" THEN As(field_ref, field_attrs.as_[1]) ELSE field_ref,
                    field_encoder)

\* #(#encode_each_field)*: the fields in declaration order
RECURSIVE encode_each_field(_, _)
encode_each_field(E, struct_fields) ==
    IF struct_fields = <<>> \/ E.panicked THEN E
    ELSE encode_each_field(
             encode_field(E, Head(struct_fields).attrs, Head(struct_fields).mem,
                          Head(struct_fields).value),
             Tail(struct_fields))

\* generate_impl_for_struct
Struct_unambiguously_encode(value, E) ==
    LET specify_tag(l) ==
            IF value.tag # None THEN EncodeStruct_set_tag(l, value.tag[1]) ELSE l
        fields_(l) == encode_each_field(l, value.fields)
    IN AndThen(AndThen(AndThen(EncodeValue_encode_struct(E), specify_tag), fields_),
               EncodeStruct_finish)

\* generate_impl_for_enum: the struct encoder is dropped at the end of the
\* match arm
Enum_unambiguously_encode(value, E) ==
    LET with_variant_(l) == EncodeEnum_with_variant(l, value.name)
        fields_(l) == encode_each_field(l, value.fields)
    IN AndThen(AndThen(AndThen(EncodeValue_encode_enum(E), with_variant_), fields_),
               EncodeStruct_drop)

\* mutant: the field added last is encoded first
RECURSIVE FieldsList_encode_head_first(_, _)
FieldsList_encode_head_first(self, E) ==
    IF self = Nil THEN E
    ELSE LET tail(l) == FieldsList_encode_head_first(self[1].tail, l)
             add_field(l) == EncodeStruct_add_field(l, self[1].field_name)
             value(l) == unambiguously_encode(self[1].field_value, l)
         IN AndThen(AndThen(AndThen(E, add_field), value), tail)

\* FieldsList::encode for Nil and for Cons: the tail is encoded first
RECURSIVE FieldsList_encode(_, _)
FieldsList_encode(self, E) ==
    IF self = Nil THEN E
    ELSE LET tail(l) == FieldsList_encode(self[1].tail, l)
             add_field(l) == EncodeStruct_add_field(l, self[1].field_name)
             value(l) == unambiguously_encode(self[1].field_value, l)
         IN AndThen(AndThen(AndThen(E, tail), add_field), value)

\* Digestable for InlineStruct: the struct encoder is dropped at the end of
\* the function
InlineStruct_unambiguously_encode(value, E) ==
    LET set_tag(l) ==
            IF value.tag # None THEN EncodeStruct_set_tag(l, value.tag[1]) ELSE l
        fields_(l) == FieldsList_encode(value.fields_list, l)
    IN AndThen(AndThen(AndThen(EncodeValue_encode_struct(E), set_tag), fields_),
               EncodeStruct_drop)

\* <T as Digestable>::unambiguously_encode, by the type of the value
unambiguously_encode(value, E) ==
    CASE value.ty = "str" -> str_unambiguously_encode(value, E)
      [] value.ty = "Bytes" -> Bytes_unambiguously_encode(value, E)
      [] value.ty = "uint" -> unsigned_unambiguously_encode(value.image, E)
      [] value.ty = "int" -> signed_unambiguously_encode(value.image, E)
      [] value.ty = "bool" -> bool_unambiguously_encode(value, E)
      [] value.ty = "Option" -> Option_unambiguously_encode(value, E)
      [] value.ty = "Result" -> Result_unambiguously_encode(value, E)
      [] value.ty = "tuple" -> tuple_unambiguously_encode(value, E)
      [] value.ty \in SeqTypes -> seq_unambiguously_encode(value, E)
      [] value.ty = "BTreeSet" -> BTreeSet_unambiguously_encode(value, E)
      [] value.ty = "BTreeMap" -> BTreeMap_unambiguously_encode(value, E)
      [] value.ty = "As" -> As_unambiguously_encode(value, E)

\* U::digest_as(value, encoder) for the rule U
digest_as(rule, value, E) ==
    CASE rule.of = "Same" -> unambiguously_encode(value, E)
      [] rule.of = "Bytes" -> EncodeValue_encode_leaf_value(E, as_ref(value))
      [] rule.of = "Option" ->
             unambiguously_encode(
                 [ty |-> "Option", val |-> map_As(value.val, rule.rules[1])], E)
      [] rule.of = "Result" ->
             unambiguously_encode(
                 [ty |-> "Result", ok |-> value.ok,
                  val |-> As(value.val, rule.rules[IF value.ok THEN 1 ELSE 2])], E)
      [] rule.of \in SeqTypes ->
             unambiguously_encode_iter(E, map_As(value.items, rule.rules[1]))
      [] rule.of = "BTreeSet" /\ value.ty = "BTreeSet" ->
             unambiguously_encode_iter(E, map_As(BTreeSet_iter(value.elems), rule.rules[1]))
      [] rule.of = "BTreeSet" /\ value.ty = "HashSet" ->
             unambiguously_encode(collect_BTreeSet(map_As(value.order, rule.rules[1])), E)
      [] rule.of = "BTreeMap" /\ value.ty = "BTreeMap" ->
             LET iter == BTreeMap_iter(value.entries)
             IN unambiguously_encode_iter(E,
                    [i \in 1..Len(iter) |->
                        Tuple(<<As(iter[i][1], rule.rules[1]), As(iter[i][2], rule.rules[2])>>)])
      [] rule.of = "BTreeMap" /\ value.ty = "HashMap" ->
             unambiguously_encode(
                 collect_BTreeMap(
                     [i \in 1..Len(value.order) |->
                         <<As(value.order[i][1], rule.rules[1]),
                           As(value.order[i][2], rule.rules[2])>>]), E)
      [] rule.of = "tuple" ->
             unambiguously_encode(
                 Tuple([i \in 1..Len(value.items) |-> As(value.items[i], rule.rules[i])]), E)

(***************************************************************************)
(* SpecDigest: encode_to_vec of the tests is called once with a sampled    *)
(* Digestable value.                                                       *)
(***************************************************************************)
\* "", "1" and "2", and the u8s 0 and 49
StrSamples == {Str(<<>>), Str(<<49>>), Str(<<50>>)}
U8Samples == {UInt(<<0>>), UInt(<<49>>)}
AtomSamples == StrSamples \cup U8Samples

\* the sequences of 1..n elements of S, and of 0..n
SeqsFrom1(S, n) == SeqsUpTo(S, n) \ {<<>>}
\* Vec<u8>: [], [49] and [0, 49]
U8Vecs == {SeqOf("Vec", <<>>), SeqOf("Vec", <<UInt(<<49>>)>>),
           SeqOf("Vec", <<UInt(<<0>>), UInt(<<49>>)>>)}
\* the element types of the sampled collections, each with its values
ElementTypes == {StrSamples, U8Samples, U8Vecs}

OptionSamples ==
    {OptionNone} \cup {OptionSome(v) : v \in AtomSamples \cup U8Vecs \cup {OptionNone}}
ResultSamples ==
    {ResultOk(v) : v \in AtomSamples \cup {OptionNone}}
    \cup {ResultErr(v) : v \in AtomSamples \cup {OptionNone}}
TupleSamples == {Tuple(items) : items \in SeqsFrom1(AtomSamples, MaxItems)}
SeqSamples ==
    UNION {{SeqOf(ty, items) : items \in SeqsUpTo(T, MaxItems)} :
               ty \in SeqTypes, T \in ElementTypes}
BTreeSetSamples ==
    UNION {{BTreeSet(S) : S \in {R \in SUBSET T : Cardinality(R) <= MaxItems}} :
               T \in {StrSamples, U8Samples}}
\* the maps from at most MaxItems keys to values of one type
MapEntries ==
    UNION {UNION {{{<<k, f[k]>> : k \in K} : f \in [K -> T]} :
                      K \in {R \in SUBSET StrSamples : Cardinality(R) <= MaxItems}} :
               T \in ElementTypes}
BTreeMapSamples == {BTreeMap(entries) : entries \in MapEntries}

\* the orders in which iter() of a hash collection may yield the elements S
Orders(S) ==
    {order \in [1..Cardinality(S) -> S] : \A i, j \in 1..Cardinality(S) :
                                              order[i] = order[j] => i = j}
HashMapSamples == UNION {{HashMap(order) : order \in Orders(entries)} : entries \in MapEntries}
HashSetSamples ==
    UNION {{HashSet(order) : order \in Orders(S)} :
               S \in {R \in SUBSET StrSamples : Cardinality(R) <= MaxItems}}

\* the rules that fit a value: Same for a Digestable one, Bytes for a
\* byte string, and the container rules over the rules of what it holds
BytesLike(v) == v.ty \in {"str", "Bytes"} \/ (v.ty = "Vec" /\ v \in U8Vecs)
LeafRules(v) == {Same} \cup (IF BytesLike(v) THEN {BytesRule} ELSE {})
\* the rules that fit all the values of S
CommonRules(S) == {r \in {Same, BytesRule} : \A v \in S : r \in LeafRules(v)}
RulesFor(v) ==
    CASE v.ty = "Option" ->
             {Rule("Option", <<r>>) : r \in CommonRules({v.val[i] : i \in 1..Len(v.val)})}
      [] v.ty = "Result" -> {Rule("Result", <<r, r>>) : r \in LeafRules(v.val)}
      [] v.ty = "tuple" ->
             {Rule("tuple", rules) :
                  rules \in {rs \in [1..Len(v.items) -> {Same, BytesRule}] :
                                 \A i \in 1..Len(v.items) : rs[i] \in LeafRules(v.items[i])}}
      [] v.ty \in SeqTypes ->
             {Rule(v.ty, <<r>>) : r \in CommonRules({v.items[i] : i \in 1..Len(v.items)})}
      [] v.ty \in {"BTreeSet"} -> {Rule("BTreeSet", <<r>>) : r \in CommonRules(v.elems)}
      [] v.ty \in {"HashSet"} ->
             {Rule("BTreeSet", <<r>>) : r \in CommonRules({v.order[i] : i \in 1..Len(v.order)})}
      [] v.ty = "BTreeMap" ->
             {Rule("BTreeMap", <<kr, vr>>) :
                  kr \in CommonRules({e[1] : e \in v.entries}),
                  vr \in CommonRules({e[2] : e \in v.entries})}
      [] v.ty = "HashMap" ->
             {Rule("BTreeMap", <<kr, vr>>) :
                  kr \in CommonRules({v.order[i][1] : i \in 1..Len(v.order)}),
                  vr \in CommonRules({v.order[i][2] : i \in 1..Len(v.order)})}
      [] OTHER -> LeafRules(v)

PlainSamples ==
    AtomSamples \cup OptionSamples \cup ResultSamples \cup TupleSamples
    \cup SeqSamples \cup BTreeSetSamples \cup BTreeMapSamples
AsSamples ==
    UNION {{As(v, r) : r \in RulesFor(v)} :
               v \in PlainSamples \cup HashSetSamples \cup HashMapSamples}
DigestSamples == PlainSamples \cup AsSamples

InitDigest ==
    /\ buffer = <<>>
    /\ stack = <<>>
    /\ panicked = FALSE
    /\ shadow = <<>>
    /\ result = None
    /\ nodes = 0
    /\ fed = 0
    /\ tagged = 0
    /\ fields = 0
    /\ lenIn = None
    /\ intIn = None
    /\ valIn \in {Some(v) : v \in DigestSamples}
    /\ out = None

\* common::encode_to_vec
encode_to_vec ==
    /\ valIn # None /\ result = None
    /\ Commit(unambiguously_encode(valIn[1], EncodeValue_new(Real)))
    /\ result' = Some("returned")
    /\ UNCHANGED <<shadow, nodes, fed, tagged, fields, lenIn, intIn, valIn, out>>

NextDigest == encode_to_vec

SpecDigest == InitDigest /\ [][NextDigest]_vars

(***************************************************************************)
(* SpecHash: one of hash, hash_iter, hash_xof, hash_xof_iter, hash_vof and *)
(* hash_vof_iter (lib.rs) is called once.  buffer is what the hash has     *)
(* been fed (Buffer::write is Update::update); there is none before the    *)
(* hash is made.  A variable-output algorithm D is the set of the output   *)
(* sizes it accepts.  A byte of the output is not computed: it is the      *)
(* record of where it came from, the caller or the place at of the digest  *)
(* of the bytes fed.                                                       *)
(***************************************************************************)
\* "udigest.list"
UDIGEST_LIST == <<117, 100, 105, 103, 101, 115, 116, 46, 108, 105, 115, 116>>

\* a byte of [0u8; N], and the bytes of a digest
CallerByte == [by |-> "caller", of |-> <<>>, at |-> 0]
DigestBytes(input, n) == [i \in 1..n |-> [by |-> "digest", of |-> input, at |-> i]]

\* Result<T, InvalidOutputSize>
Ok(x) == [ok |-> TRUE, val |-> Some(x)]
InvalidOutputSize == [ok |-> FALSE, val |-> None]

\* mutant: every output size is taken
VariableOutput_new_unchecked(D, output_size) == Ok(output_size)

\* D::new(output_size): the hasher, which keeps its output size, or the error
VariableOutput_new(D, output_size) ==
    IF output_size \in D THEN Ok(output_size) ELSE InvalidOutputSize

\* finalize_variable(out) followed by map_err: the digest is written when
\* the slice has the hasher's output size
finalize_variable(output_size, input, o) ==
    IF Len(o) # output_size THEN [ret |-> InvalidOutputSize, out |-> o]
    ELSE [ret |-> Ok("()"), out |-> DigestBytes(input, output_size)]

\* value.unambiguously_encode(EncodeValue::new(&mut hash))
hash_value(E, value) == unambiguously_encode(value, EncodeValue_new(E))

\* mutant: the list is given no tag
hash_items_untagged(E, iter) ==
    AndThen(add_items(EncodeList_new(E), iter), EncodeList_finish)

\* the list tagged "udigest.list", an item for every value of the iterator
hash_items(E, iter) ==
    AndThen(add_items(EncodeList_with_tag(EncodeList_new(E), UDIGEST_LIST), iter),
            EncodeList_finish)

\* the calls: the function, its value or the items of its iterator, and for
\* hash_vof and hash_vof_iter the algorithm and the output slice
HashValues == AtomSamples \cup {OptionNone, OptionSome(Str(<<49>>))} \cup U8Vecs
HashIters == SeqsUpTo(AtomSamples, MaxItems)
Algorithms == (SUBSET (0..MaxOut)) \ {{}}
Call(fn, arg, D) == [fn |-> fn, arg |-> arg, D |-> D]
HashCalls ==
    {Call(fn, v, {}) : fn \in {"hash", "hash_xof"}, v \in HashValues}
    \cup {Call(fn, iter, {}) : fn \in {"hash_iter", "hash_xof_iter"}, iter \in HashIters}
    \cup {Call("hash_vof", v, D) : v \in HashValues, D \in Algorithms}
    \cup {Call("hash_vof_iter", iter, D) : iter \in HashIters, D \in Algorithms}

InitHash ==
    /\ buffer = <<>>
    /\ stack = <<>>
    /\ panicked = FALSE
    /\ shadow = <<>>
    /\ result = None
    /\ nodes = 0
    /\ fed = 0
    /\ tagged = 0
    /\ fields = 0
    /\ lenIn = None
    /\ intIn = None
    /\ valIn \in {Some(call) : call \in HashCalls}
    /\ out \in {IF valIn[1].fn \in {"hash_vof", "hash_vof_iter"}
                THEN Some([i \in 1..n |-> CallerByte]) ELSE None : n \in 0..MaxOut}

Called(fn) == valIn # None /\ result = None /\ valIn[1].fn = fn
HashIdle == UNCHANGED <<shadow, nodes, fed, tagged, fields, lenIn, intIn, valIn>>

\* the digest::Output<D> of what was fed
hash ==
    /\ Called("hash")
    /\ Commit(hash_value(Real, valIn[1].arg))
    /\ result' = Some(Ok([digest_of |-> buffer']))
    /\ UNCHANGED out
    /\ HashIdle

hash_iter ==
    /\ Called("hash_iter")
    /\ Commit(hash_items(Real, valIn[1].arg))
    /\ result' = Some(Ok([digest_of |-> buffer']))
    /\ UNCHANGED out
    /\ HashIdle

\* the D::Reader of what was fed
hash_xof ==
    /\ Called("hash_xof")
    /\ Commit(hash_value(Real, valIn[1].arg))
    /\ result' = Some(Ok([digest_of |-> buffer']))
    /\ UNCHANGED out
    /\ HashIdle

hash_xof_iter ==
    /\ Called("hash_xof_iter")
    /\ Commit(hash_items(Real, valIn[1].arg))
    /\ result' = Some(Ok([digest_of |-> buffer']))
    /\ UNCHANGED out
    /\ HashIdle

\* the ? returns the error of D::new before there is a hash to feed
hash_vof ==
    /\ Called("hash_vof")
    /\ LET new == VariableOutput_new(valIn[1].D, Len(out[1]))
       IN IF ~new.ok
          THEN result' = Some(new) /\ UNCHANGED <<buffer, stack, panicked, out>>
          ELSE /\ Commit(hash_value(Real, valIn[1].arg))
               /\ out' = Some(finalize_variable(new.val[1], buffer', out[1]).out)
               /\ result' = Some(finalize_variable(new.val[1], buffer', out[1]).ret)
    /\ HashIdle

hash_vof_iter ==
    /\ Called("hash_vof_iter")
    /\ LET new == VariableOutput_new(valIn[1].D, Len(out[1]))
       IN IF ~new.ok
          THEN result' = Some(new) /\ UNCHANGED <<buffer, stack, panicked, out>>
          ELSE /\ Commit(hash_items(Real, valIn[1].arg))
               /\ out' = Some(finalize_variable(new.val[1], buffer', out[1]).out)
               /\ result' = Some(finalize_variable(new.val[1], buffer', out[1]).ret)
    /\ HashIdle

NextHash ==
    \/ hash
    \/ hash_iter
    \/ hash_xof
    \/ hash_xof_iter
    \/ hash_vof
    \/ hash_vof_iter

SpecHash == InitHash /\ [][NextHash]_vars

(***************************************************************************)
(* SpecHeader: a value is hashed with a top-level tag, as                  *)
(* examples/derivation.rs does with Tag::new and udigest.  The header is   *)
(* written as the specification describes it: a struct tagged              *)
(* "udigest.header" with the field "udigest_version" holding the leaf "1"  *)
(* and the field "tag" holding the tag value, fed to the hash the main     *)
(* value is then encoded into.                                             *)
(***************************************************************************)
\* "udigest.header", "udigest_version", "tag" and "1"
UDIGEST_HEADER == <<117, 100, 105, 103, 101, 115, 116, 46, 104, 101, 97, 100, 101, 114>>
UDIGEST_VERSION == <<117, 100, 105, 103, 101, 115, 116, 95, 118, 101, 114, 115, 105, 111, 110>>
S_tag == <<116, 97, 103>>
S_1 == <<49>>

\* mutant: the header struct is given no domain tag
write_header_untagged(E, tag) ==
    LET version(l) == EncodeStruct_add_field(l, UDIGEST_VERSION)
        one(l) == EncodeValue_encode_leaf_value(l, S_1)
        tag_field(l) == EncodeStruct_add_field(l, S_tag)
        tag_value(l) == unambiguously_encode(tag, l)
    IN AndThen(AndThen(AndThen(AndThen(AndThen(EncodeStruct_new(E),
           version), one), tag_field), tag_value), EncodeStruct_finish)

\* struct{ udigest_version: "1", tag: <tag value> } with the domain tag
write_header(E, tag) ==
    LET with_tag(l) == EncodeStruct_with_tag(l, UDIGEST_HEADER)
        version(l) == EncodeStruct_add_field(l, UDIGEST_VERSION)
        one(l) == EncodeValue_encode_leaf_value(l, S_1)
        tag_field(l) == EncodeStruct_add_field(l, S_tag)
        tag_value(l) == unambiguously_encode(tag, l)
    IN AndThen(AndThen(AndThen(AndThen(AndThen(AndThen(EncodeStruct_new(E),
           with_tag), version), one), tag_field), tag_value), EncodeStruct_finish)

\* the tags: "", "1", "2", and a structured one, ("1", 49)
TagSamples == StrSamples \cup {Tuple(<<Str(<<49>>), UInt(<<49>>)>>)}
TaggedCalls ==
    {[fn |-> "udigest", arg |-> v, D |-> {}, tag |-> t] :
        v \in HashValues \cup TupleSamples, t \in TagSamples}

InitHeader ==
    /\ buffer = <<>>
    /\ stack = <<>>
    /\ panicked = FALSE
    /\ shadow = <<>>
    /\ result = None
    /\ nodes = 0
    /\ fed = 0
    /\ tagged = 0
    /\ fields = 0
    /\ lenIn = None
    /\ intIn = None
    /\ valIn \in {Some(call) : call \in TaggedCalls}
    /\ out = None

\* Tag::new: the hash is made and fed the header
Tag_new ==
    /\ Called("udigest")
    /\ buffer = <<>>
    /\ Commit(write_header(Real, valIn[1].tag))
    /\ UNCHANGED <<result, out>>
    /\ HashIdle

\* udigest(tag, value): the hash that holds the header is fed the value
udigest ==
    /\ Called("udigest")
    /\ buffer # <<>>
    /\ Commit(hash_value(Real, valIn[1].arg))
    /\ result' = Some(Ok([digest_of |-> buffer']))
    /\ UNCHANGED out
    /\ HashIdle

NextHeader ==
    \/ Tag_new
    \/ udigest

SpecHeader == InitHeader /\ [][NextHeader]_vars

(***************************************************************************)
(* SpecInline: a caller builds an InlineStruct with add_field and set_tag,  *)
(* as the inline_struct! macro does, and hands it to encode_to_vec.  shadow *)
(* is the history of the calls made on the builder.                        *)
(***************************************************************************)
InlineNames == {<<97>>, <<98>>}
InlineTags == SeqsUpTo({84}, MaxTagLen)
InlineValues == {Str(<<49>>), UInt(<<0>>), UInt(<<49>>)}

InitInline ==
    /\ buffer = <<>>
    /\ stack = <<>>
    /\ panicked = FALSE
    /\ shadow = <<>>
    /\ result = None
    /\ nodes = 0
    /\ fed = 0
    /\ tagged = 0
    /\ fields = 0
    /\ lenIn = None
    /\ intIn = None
    /\ valIn = Some(InlineStruct_new)
    /\ out = None

inline_add_field(field_name, field_value) ==
    /\ result = None
    /\ fields < MaxAdded
    /\ valIn' = Some(InlineStruct_add_field(valIn[1], field_name, field_value))
    /\ shadow' = Append(shadow, [call |-> "add_field", field_name |-> field_name,
                                 field_value |-> field_value, tag |-> <<>>])
    /\ fields' = fields + 1
    /\ UNCHANGED <<buffer, stack, panicked, result, nodes, fed, tagged, lenIn, intIn, out>>

inline_set_tag(tag) ==
    /\ result = None
    /\ tagged < MaxSetTag
    /\ valIn' = Some(InlineStruct_set_tag(valIn[1], tag))
    /\ shadow' = Append(shadow, [call |-> "set_tag", field_name |-> <<>>,
                                 field_value |-> Str(<<>>), tag |-> tag])
    /\ tagged' = tagged + 1
    /\ UNCHANGED <<buffer, stack, panicked, result, nodes, fed, fields, lenIn, intIn, out>>

\* common::encode_to_vec of the InlineStruct
inline_encode ==
    /\ result = None
    /\ Commit(InlineStruct_unambiguously_encode(valIn[1], EncodeValue_new(Real)))
    /\ result' = Some("returned")
    /\ UNCHANGED <<shadow, nodes, fed, tagged, fields, lenIn, intIn, valIn, out>>

NextInline ==
    \/ \E field_name \in InlineNames, field_value \in InlineValues :
           inline_add_field(field_name, field_value)
    \/ \E tag \in InlineTags : inline_set_tag(tag)
    \/ inline_encode

SpecInline == InitInline /\ [][NextInline]_vars

(***************************************************************************)
(* SpecDerive: encode_to_vec is called once with a value of a type that    *)
(* derives Digestable: a struct of the fields a, b, ..., or the variant S  *)
(* of an enum with those fields.  Every field is declared with a value and *)
(* attributes that process_field accepts.                                  *)
(***************************************************************************)
\* the name of the field declared at place i: "a", "b", ...
stringify_field_name(i) == <<96 + i>>

\* tests/derive.rs: the field type the `with` attribute is used on
Bar == [ty |-> "Bar"]

U8Vec1 == SeqOf("Vec", <<UInt(<<49>>)>>)
FieldKinds ==
    {[value |-> Str(<<49>>), attrs |-> FieldAttrs_default],
     [value |-> UInt(<<0>>), attrs |-> FieldAttrs_default],
     [value |-> Str(<<49>>), attrs |-> FieldAttrs(None, Some("skip"), None, None, None)],
     [value |-> Str(<<49>>), attrs |-> FieldAttrs(None, Some("skip"), Some(<<97>>), None, None)],
     [value |-> Str(<<50>>), attrs |-> FieldAttrs(None, None, Some(<<106, 111, 98>>), None, None)],
     [value |-> U8Vec1, attrs |-> FieldAttrs(Some("as_bytes"), None, None, None, None)],
     [value |-> U8Vec1, attrs |-> FieldAttrs(Some("as_bytes"), None, Some(<<>>), None, None)],
     [value |-> U8Vec1, attrs |-> FieldAttrs(None, None, None, None, Some(BytesRule))],
     [value |-> Bar, attrs |-> FieldAttrs(None, None, None, Some("encode_bar"), None)]}

DeclaredFields ==
    UNION {{[i \in 1..n |-> Field(stringify_field_name(i), kinds[i].value, kinds[i].attrs)] :
               kinds \in [1..n -> FieldKinds]} : n \in 0..MaxDeclared}

DeriveSamples ==
    {Struct(tag, struct_fields) :
        tag \in {None} \cup {Some(t) : t \in SeqsUpTo({84}, MaxTagLen)},
        struct_fields \in DeclaredFields}
    \cup {Enum(<<83>>, variant_fields) : variant_fields \in DeclaredFields}

InitDerive ==
    /\ buffer = <<>>
    /\ stack = <<>>
    /\ panicked = FALSE
    /\ shadow = <<>>
    /\ result = None
    /\ nodes = 0
    /\ fed = 0
    /\ tagged = 0
    /\ fields = 0
    /\ lenIn = None
    /\ intIn = None
    /\ valIn \in {Some(v) : v \in DeriveSamples}
    /\ out = None

\* common::encode_to_vec of a derived struct
digest_struct ==
    /\ result = None /\ valIn[1].ty = "struct"
    /\ Commit(Struct_unambiguously_encode(valIn[1], EncodeValue_new(Real)))
    /\ result' = Some("returned")
    /\ UNCHANGED <<shadow, nodes, fed, tagged, fields, lenIn, intIn, valIn, out>>

\* common::encode_to_vec of a derived enum
digest_enum ==
    /\ result = None /\ valIn[1].ty = "enum"
    /\ Commit(Enum_unambiguously_encode(valIn[1], EncodeValue_new(Real)))
    /\ result' = Some("returned")
    /\ UNCHANGED <<shadow, nodes, fed, tagged, fields, lenIn, intIn, valIn, out>>

NextDerive == digest_struct \/ digest_enum

SpecDerive == InitDerive /\ [][NextDerive]_vars

(***************************************************************************)
(* SpecBytes: encode_to_vec is called once with a byte string held as a    *)
(* str (String, CStr, CString), as Bytes or as a Vec<u8>, or with one of   *)
(* the structs PersonA { name: String } and                                *)
(* PersonB { #[udigest(as_bytes)] name: Vec<u8> } of the Digestable docs.  *)
(***************************************************************************)
ByteStrings == SeqsUpTo({0, 65, 108}, MaxBytes) \cup {S_Alice}
U8Vec(bytes) == SeqOf("Vec", [i \in 1..Len(bytes) |-> UInt(<<bytes[i]>>)])
PersonA(name) == Struct(None, <<Field(S_name, Str(name), FieldAttrs_default)>>)
PersonB(name) ==
    Struct(None, <<Field(S_name, U8Vec(name),
                         FieldAttrs(Some("as_bytes"), None, None, None, None))>>)

InitBytes ==
    /\ buffer = <<>>
    /\ stack = <<>>
    /\ panicked = FALSE
    /\ shadow = <<>>
    /\ result = None
    /\ nodes = 0
    /\ fed = 0
    /\ tagged = 0
    /\ fields = 0
    /\ lenIn = None
    /\ intIn = None
    /\ valIn \in {Some(v) : v \in UNION {{Str(b), BytesOfT(b), U8Vec(b), PersonA(b), PersonB(b)} :
                                            b \in ByteStrings}}
    /\ out = None

NextBytes ==
    \/ valIn[1].ty # "struct" /\ encode_to_vec
    \/ digest_struct

SpecBytes == InitBytes /\ [][NextBytes]_vars

(***************************************************************************)
(* SpecTag: leaves and lists of leaves whose tag may be set again, at any  *)
(* point before they are finished.                                         *)
(***************************************************************************)
NextTag ==
    \/ encode_leaf
    \/ encode_list
    \/ \E bytes \in Fragments : leaf_update(bytes)
    \/ \E tag \in Tags : leaf_set_tag_within(MaxRetag, tag)
    \/ leaf_finish
    \/ \E tag \in Tags : list_set_tag_within(MaxRetag, tag)
    \/ list_add_leaf
    \/ list_finish

SpecTag == Init /\ [][NextTag]_vars

(***************************************************************************)
(* SpecOverflow: a leaf that has been handed, or a list that has been      *)
(* given, all but a few of the usize::MAX bytes or items its counter can   *)
(* count.  The buffer shows what is written from then on; lenIn keeps the  *)
(* counter the run starts with, fed and nodes count what it adds.          *)
(***************************************************************************)
\* usize::MAX - k, for a small k
usize_MAX_less(k) == [usize_MAX EXCEPT ![1] = 255 - k]

InitOverflow ==
    /\ buffer = <<>>
    /\ \E type \in {"EncodeLeaf", "EncodeList"}, k \in 0..MaxShort :
          /\ stack = <<[type |-> type, len |-> usize_MAX_less(k), tag |-> None]>>
          /\ shadow = <<IF type = "EncodeLeaf" THEN LeafNode(<<>>, None) ELSE ListNode(<<>>, None)>>
          /\ lenIn = Some(usize_MAX_less(k))
    /\ panicked = FALSE
    /\ result = None
    /\ nodes = 1
    /\ fed = 0
    /\ tagged = 0
    /\ fields = 0
    /\ intIn = None
    /\ valIn = None
    /\ out = None

NextOverflow ==
    \/ \E bytes \in Fragments : leaf_update(bytes)
    \/ \E tag \in Tags : leaf_set_tag(tag)
    \/ leaf_finish
    \/ \E tag \in Tags : list_set_tag(tag)
    \/ list_add_item
    \/ encode_leaf
    \/ drop_unused
    \/ list_finish

SpecOverflow == InitOverflow /\ [][NextOverflow]_vars

(***************************************************************************)
(* SpecAttrs: process_field of the derive macro, one attribute of the      *)
(* field at a time.  valIn holds field_attrs, shadow the kinds of the      *)
(* attributes seen so far, result what process_field returned and out the  *)
(* arm of encode_field the derive then takes.                              *)
(***************************************************************************)
Attr(kind, value) == [kind |-> kind, value |-> value]

\* the attributes a field may carry: the udigest attributes, one that does
\* not parse, and one of another crate
FieldAttributes ==
    {Attr("AsBytes", "as_bytes"), Attr("With", "encode_bar"), Attr("As", BytesRule),
     Attr("Skip", "skip"), Attr("Rename", <<97>>), Attr("Root", "udigest"),
     Attr("Tag", <<84>>), Attr("Bound", ""), Attr("malformed", ""), Attr("serde", "")}

\* Ok(None) for an attribute that is not udigest's, Err for one that does
\* not parse
parse_attribute(attr) ==
    CASE attr.kind = "serde" -> [ok |-> TRUE, attr |-> None]
      [] attr.kind = "malformed" -> [ok |-> FALSE, attr |-> None]
      [] OTHER -> [ok |-> TRUE, attr |-> Some(attr)]

RECURSIVE count_trues(_)
count_trues(i) ==
    IF i = <<>> THEN 0 ELSE (IF Head(i) THEN 1 ELSE 0) + count_trues(Tail(i))

\* the Err of Error::new(attr.kw_span(), message)
Error_new(message) == [ok |-> FALSE, val |-> None]

\* mutant: the match without the arm that refuses a second way to encode
process_attr_together(field_attrs, attr) ==
    CASE attr.kind = "AsBytes" /\ field_attrs.as_bytes # None -> Error_new("attribute is duplicated")
      [] attr.kind = "With" /\ field_attrs.with # None -> Error_new("attribute is duplicated")
      [] attr.kind = "Skip" /\ field_attrs.skip # None -> Error_new("attribute is duplicated")
      [] attr.kind = "Rename" /\ field_attrs.rename # None -> Error_new("attribute is duplicated")
      [] attr.kind = "As" /\ field_attrs.as_ # None -> Error_new("attribute is duplicated")
      [] OTHER ->
         CASE attr.kind = "AsBytes" -> Ok([field_attrs EXCEPT !.as_bytes = Some(attr.value)])
           [] attr.kind = "With" -> Ok([field_attrs EXCEPT !.with = Some(attr.value)])
           [] attr.kind = "Skip" -> Ok([field_attrs EXCEPT !.skip = Some(attr.value)])
           [] attr.kind = "Rename" -> Ok([field_attrs EXCEPT !.rename = Some(attr.value)])
           [] attr.kind = "As" -> Ok([field_attrs EXCEPT !.as_ = Some(attr.value)])
           [] OTHER -> Error_new("attribute is not allowed here")

\* the body of the loop of process_field: the match on one parsed attribute,
\* its arms in the order of the source
process_attr(field_attrs, attr) ==
    CASE attr.kind = "AsBytes" /\ field_attrs.as_bytes # None -> Error_new("attribute is duplicated")
      [] attr.kind = "With" /\ field_attrs.with # None -> Error_new("attribute is duplicated")
      [] attr.kind = "Skip" /\ field_attrs.skip # None -> Error_new("attribute is duplicated")
      [] attr.kind = "Rename" /\ field_attrs.rename # None -> Error_new("attribute is duplicated")
      [] attr.kind = "As" /\ field_attrs.as_ # None -> Error_new("attribute is duplicated")
      [] OTHER ->
         IF /\ attr.kind \in {"AsBytes", "With", "As", "Skip"}
            /\ count_trues(<<field_attrs.as_bytes # None, field_attrs.with # None,
                             field_attrs.as_ # None, field_attrs.skip # None>>) > 0
         THEN Error_new("attributes cannot be used together")
         ELSE CASE attr.kind = "AsBytes" -> Ok([field_attrs EXCEPT !.as_bytes = Some(attr.value)])
                [] attr.kind = "With" -> Ok([field_attrs EXCEPT !.with = Some(attr.value)])
                [] attr.kind = "Skip" -> Ok([field_attrs EXCEPT !.skip = Some(attr.value)])
                [] attr.kind = "Rename" -> Ok([field_attrs EXCEPT !.rename = Some(attr.value)])
                [] attr.kind = "As" -> Ok([field_attrs EXCEPT !.as_ = Some(attr.value)])
                [] OTHER -> Error_new("attribute is not allowed here")

InitAttrs ==
    /\ buffer = <<>>
    /\ stack = <<>>
    /\ panicked = FALSE
    /\ shadow = <<>>
    /\ result = None
    /\ nodes = 1
    /\ fed = 0
    /\ tagged = 0
    /\ fields = 0
    /\ lenIn = None
    /\ intIn = None
    /\ valIn = Some(FieldAttrs_default)
    /\ out = None

\* one turn of `for attr in &field.attrs`
process_field_attr(attr) ==
    /\ result = None
    /\ Len(shadow) < MaxAttrs
    /\ shadow' = Append(shadow, attr.kind)
    /\ LET parsed == parse_attribute(attr)
       IN CASE ~parsed.ok -> result' = Some("Err") /\ UNCHANGED valIn
            [] parsed.ok /\ parsed.attr = None -> UNCHANGED <<result, valIn>>
            [] OTHER ->
               LET r == process_attr(valIn[1], parsed.attr[1])
               IN IF r.ok THEN valIn' = r.val /\ UNCHANGED result
                  ELSE result' = Some("Err") /\ UNCHANGED valIn
    /\ UNCHANGED <<buffer, stack, panicked, nodes, fed, tagged, fields, lenIn, intIn, out>>

\* the end of the loop: Ok(Field { attrs: field_attrs, .. })
process_field_ok ==
    /\ result = None
    /\ result' = Some("Ok")
    /\ UNCHANGED <<buffer, stack, panicked, shadow, nodes, fed, tagged, fields, lenIn, intIn,
                   valIn, out>>

\* encode_field on the attributes of a field that process_field returned
derive_encode_field ==
    /\ result = Some("Ok")
    /\ out = None
    /\ out' = Some(encode_field_arm(valIn[1]))
    /\ UNCHANGED <<buffer, stack, panicked, shadow, result, nodes, fed, tagged, fields, lenIn,
                   intIn, valIn>>

NextAttrs ==
    \/ \E attr \in FieldAttributes : process_field_attr(attr)
    \/ process_field_ok
    \/ derive_encode_field

SpecAttrs == InitAttrs /\ [][NextAttrs]_vars

(***************************************************************************)
(* Integers as the claims state them.                                      *)
(***************************************************************************)
Digested == intIn # None /\ result # None /\ ~panicked /\ stack = <<>>

AllIntImages == UNION {IntImages(w) : w \in IntWidths}
Root == <<[type |-> "EncodeValue"]>>
UnsignedBytes == [x \in AllIntImages |-> unsigned_unambiguously_encode(x, Enc(<<>>, Root, FALSE)).buffer]
SignedBytes == [x \in AllIntImages |-> signed_unambiguously_encode(x, Enc(<<>>, Root, FALSE)).buffer]
DigestUnsigned(x) == unsigned_unambiguously_encode(x, Enc(<<>>, Root, FALSE)).buffer
DigestSigned(x) == signed_unambiguously_encode(x, Enc(<<>>, Root, FALSE)).buffer
Leaf(bytes) == GrammarBytes(LeafNode(bytes, None))

\* 0 - x, byte by byte with a borrow: the magnitude of a negative integer
RECURSIVE SubFromZero(_, _)
SubFromZero(x, borrow) ==
    IF x = <<>> THEN <<>>
    ELSE LET d == 0 - Head(x) - borrow
         IN <<d % 256>> \o SubFromZero(Tail(x), IF d < 0 THEN 1 ELSE 0)
Magnitude(x) == IF x[Len(x)] >= 128 THEN SubFromZero(x, 0) ELSE x
\* the same number in a wider integer
ZeroExtend(x, w) == [i \in 1..w |-> IF i <= Len(x) THEN x[i] ELSE 0]
SignExtend(x, w) ==
    [i \in 1..w |-> IF i <= Len(x) THEN x[i] ELSE IF x[Len(x)] >= 128 THEN 255 ELSE 0]
\* the bytes of the widest integer
MaxWidth == CHOOSE w \in IntWidths : \A v \in IntWidths : v <= w

\* the encode_integers test and the claim's 1000 and 1_000_000
C8_Examples ==
    /\ DigestUnsigned(<<0, 0>>) = Leaf(<<>>)
    /\ DigestUnsigned(<<1, 0>>) = Leaf(<<1>>)
    /\ DigestUnsigned(<<255, 0>>) = Leaf(<<255>>)
    /\ DigestUnsigned(<<0, 1>>) = Leaf(<<1, 0>>)
    /\ DigestUnsigned(<<232, 3>>) = Leaf(<<3, 232>>)
    /\ DigestUnsigned(<<232, 3, 0, 0, 0, 0, 0, 0>>) = DigestUnsigned(<<232, 3>>)
    /\ DigestUnsigned(<<64, 66, 15, 0, 0, 0, 0, 0>>) = Leaf(<<15, 66, 64>>)
    /\ DigestUnsigned(<<64, 66, 15, 0>>) = DigestUnsigned(<<64, 66, 15, 0, 0, 0, 0, 0>>)
    /\ \A x, y \in AllIntImages :
           ZeroExtend(x, MaxWidth) = ZeroExtend(y, MaxWidth)
               => UnsignedBytes[x] = UnsignedBytes[y]

\* C8: an unsigned integer of any width is written as the untagged leaf of
\* its big-endian bytes without the leading zero bytes, zero as the empty
\* leaf, so that the same number has the same bytes at every width.
C8_Unsigned ==
    /\ (Digested /\ ~intIn[1].signed) =>
           /\ buffer = Leaf(Minimal(intIn[1].image))
           /\ (\A i \in 1..Len(intIn[1].image) : intIn[1].image[i] = 0)
                  => buffer = <<0, 0, 0, 0, 5, 3>>
    /\ C8_Examples

\* a digested unsigned integer with leading zero bytes and two others
C8_Witness ==
    /\ Digested
    /\ ~intIn[1].signed
    /\ Len(intIn[1].image) = 8
    /\ Significant(intIn[1].image) = 2

\* the content the claim gives a signed integer
SignedContent(x) ==
    IF Minimal(Magnitude(x)) = <<>> THEN <<>>
    ELSE <<IF x[Len(x)] >= 128 THEN 0 ELSE 1>> \o Minimal(Magnitude(x))

C9_Examples ==
    /\ DigestSigned(<<0, 0>>) = Leaf(<<>>)
    /\ DigestSigned(<<1, 0>>) = Leaf(<<1, 1>>)
    /\ DigestSigned(<<255, 0>>) = Leaf(<<1, 255>>)
    /\ DigestSigned(<<0, 1>>) = Leaf(<<1, 1, 0>>)
    /\ DigestSigned(<<255, 255>>) = Leaf(<<0, 1>>)
    /\ DigestSigned(<<1, 255>>) = Leaf(<<0, 255>>)
    /\ DigestSigned(<<0, 255>>) = Leaf(<<0, 1, 0>>)
    /\ DigestSigned(<<128>>) = Leaf(<<0, 128>>)
    /\ DigestSigned(<<0, 128>>) = Leaf(<<0, 128, 0>>)
    /\ DigestSigned(<<128, 255>>) = DigestSigned(<<128>>)
    /\ \A x, y \in AllIntImages :
           SignExtend(x, MaxWidth) = SignExtend(y, MaxWidth)
               => SignedBytes[x] = SignedBytes[y]

\* C9: a signed integer of any width is written as the untagged leaf of a
\* sign byte, 1 when positive and 0 when negative, and the big-endian bytes
\* of its magnitude without the leading zero bytes; zero is the empty leaf;
\* the most negative integer of a width has the magnitude 2^(bits - 1); the
\* same number has the same bytes at every width.
C9_Signed ==
    /\ (Digested /\ intIn[1].signed) =>
           LET x == intIn[1].image
           IN /\ buffer = Leaf(SignedContent(x))
              /\ (\A i \in 1..Len(x) : x[i] = 0) => buffer = <<0, 0, 0, 0, 5, 3>>
              /\ x = [i \in 1..Len(x) |-> IF i = Len(x) THEN 128 ELSE 0]
                     => buffer = Leaf(<<0, 128>> \o [i \in 1..(Len(x) - 1) |-> 0])
    /\ C9_Examples

\* a digested most negative integer of more than one byte
C9_Witness ==
    /\ Digested
    /\ intIn[1].signed
    /\ Len(intIn[1].image) = 4
    /\ intIn[1].image = <<0, 0, 0, 128>>

\* -v, where an integer of the widest type holds it
Negation(x) == SubFromZero(SignExtend(x, MaxWidth), 0)
HasNegation(x) == SignExtend(x, MaxWidth) # [i \in 1..MaxWidth |-> IF i = MaxWidth THEN 128 ELSE 0]
\* the content of the leaf that is all of b
Content(b) == Parse(b)[1].bytes
SignApart(x) ==
    /\ HasNegation(x) => DigestSigned(x) # DigestSigned(Negation(x))
    /\ \E sign \in {0, 1} :
           /\ sign = 1 <=> x[Len(x)] < 128
           /\ Content(DigestSigned(x)) = <<sign>> \o Content(DigestUnsigned(Magnitude(x)))
    /\ Len(Content(DigestSigned(x))) = Len(Content(DigestUnsigned(Magnitude(x)))) + 1

\* C10 as stated: for every signed integer v the bytes of v differ from
\* those of -v, and the content of v is a sign byte followed by the content
\* of the unsigned integer |v|, so one byte longer.
C10_Original ==
    (Digested /\ intIn[1].signed) =>
        /\ buffer = DigestSigned(intIn[1].image)
        /\ SignApart(intIn[1].image)

\* C10, amended: for every signed integer v other than zero the bytes of v
\* differ from those of -v, and the content of v is a sign byte followed
\* by the content of the unsigned integer |v|, so one byte longer.
C10_NonZero ==
    (Digested /\ intIn[1].signed /\ \E i \in 1..Len(intIn[1].image) : intIn[1].image[i] # 0) =>
        /\ buffer = DigestSigned(intIn[1].image)
        /\ SignApart(intIn[1].image)

\* a digested negative integer
C10_Witness ==
    /\ Digested
    /\ intIn[1].signed
    /\ intIn[1].image = <<255, 255>>

(***************************************************************************)
(* Domain tags as the claims state them.                                   *)
(***************************************************************************)
\* the tags a value is encoded with in place of its own: none, the empty
\* tag, "T" and "U"
OtherTags == {None, Some(<<>>), Some(<<84>>), Some(<<85>>)}

C11_Examples ==
    \A t \in {LeafNode(<<49, 50, 51>>, None), LeafNode(<<>>, None), ListNode(<<>>, None), Ex1_2} :
        \A tag1, tag2 \in OtherTags :
            tag1 # tag2 => Encoded([t EXCEPT !.tag = tag1]) # Encoded([t EXCEPT !.tag = tag2])

\* C11: the bytes of a finished leaf or list differ from the bytes of the
\* same value encoded with any other tag, with no tag when it has one, and
\* with any tag, the empty one included, when it has none.
C11_TagsApart ==
    /\ (Finished /\ HoleFree(result[1])) =>
           \A tag \in OtherTags \ {result[1].tag} :
               Encoded([result[1] EXCEPT !.tag = tag]) # buffer
    /\ C11_Examples

\* a finished leaf with content whose tag was set to the empty tag
C11_Witness ==
    /\ Finished
    /\ result[1].kind = "leaf"
    /\ result[1].bytes # <<>>
    /\ result[1].tag = Some(<<>>)

(***************************************************************************)
(* Suffixes as the claims state them.  No content byte and no tag byte of  *)
(* the model is a 5, so a 5 followed by a type byte is the end of a        *)
(* suffix and of nothing else.                                             *)
(***************************************************************************)
\* how many suffixes the byte string holds
SuffixCount(b) ==
    Cardinality({i \in 1..(Len(b) - 1) : b[i] = 5 /\ b[i + 1] \in {1, 2, 3, 4}})

\* how many leaf and list encoders the tree stands for
RECURSIVE Encoders(_)
SumOver(f, n) ==
    LET sum[i \in 0..n] == IF i = 0 THEN 0 ELSE sum[i - 1] + f[i]
    IN sum[n]
Encoders(t) ==
    (IF t.kind \in {"leaf", "list"} THEN 1 ELSE 0)
    + SumOver([i \in 1..Len(t.items) |-> Encoders(t.items[i])], Len(t.items))

\* the leaf and list encoders made so far, and those of them still live
Created ==
    SumOver([d \in 1..Len(shadow) |-> Encoders(shadow[d])], Len(shadow))
    + (IF result = None THEN 0 ELSE Encoders(result[1]))
Live == Cardinality({d \in 1..Len(stack) : stack[d].type \in {"EncodeLeaf", "EncodeList"}})

\* C12: at every point the buffer holds one suffix for each leaf and list
\* encoder that was made and is gone, and none for those still live; when a
\* run is over, by finish, by the end of a scope or by a panic that unwound
\* the stack, no encoder is live, so each has written its suffix once.
C12_SuffixOnce ==
    /\ SuffixCount(buffer) = Created - Live
    /\ (panicked \/ result # None) => (Live = 0 /\ SuffixCount(buffer) = Created)

\* a panic came while a list and the EncodeValue of its second item were
\* live, after a leaf had been finished: both suffixes are in the buffer
C12_Witness ==
    /\ panicked
    /\ stack = <<>>
    /\ result[1].kind = "list"
    /\ Len(result[1].items) = 2
    /\ result[1].items[1].kind = "leaf"
    /\ result[1].items[2].kind = "hole"
    /\ SuffixCount(buffer) = 2

(***************************************************************************)
(* The order of writes as the claims state it.                             *)
(***************************************************************************)
IsPrefix(s, t) == Len(s) <= Len(t) /\ SubSeq(t, 1, Len(s)) = s

\* the bytes of a complete value, a discarded EncodeValue having none
RECURSIVE BytesOf(_)
BytesOf(t) ==
    IF t.kind = "hole" THEN <<>>
    ELSE LET leaf == t.kind = "leaf"
             body == IF leaf THEN t.bytes
                     ELSE Flatten([i \in 1..Len(t.items) |-> BytesOf(t.items[i])])
             counted == body \o BE4(IF leaf THEN Len(t.bytes) ELSE Len(t.items)) \o <<5>>
         IN IF t.tag = None
            THEN counted \o (IF leaf THEN <<3>> ELSE <<1>>)
            ELSE counted \o t.tag[1] \o BE4(Len(t.tag[1])) \o <<5>>
                         \o (IF leaf THEN <<4>> ELSE <<2>>)

\* what the live encoders have had written so far: for each of them,
\* outermost first, its finished children whole and in the order they were
\* added, or its content; no suffix of a live encoder
InProgress ==
    Flatten([d \in 1..Len(shadow) |->
                 shadow[d].bytes
                 \o Flatten([i \in 1..Len(shadow[d].items) |-> BytesOf(shadow[d].items[i])])])

InOrder ==
    /\ result = None => buffer = InProgress
    /\ result # None => buffer = BytesOf(result[1])
    /\ \A d \in 1..(Len(stack) - 1) : stack[d].type = "EncodeList"

DigestedValue == valIn # None /\ result # None /\ ~panicked /\ stack = <<>>

\* the bytes a value leaves in an empty buffer
DigestOf(v) == unambiguously_encode(v, EncodeValue_new(Fresh)).buffer

\* an untagged leaf
L(bytes) == LeafNode(bytes, None)

\* the tree the claims give a string, a u8, an Option, a Result, a tuple and
\* a sequence: the leaves "variant", "Some", "None", "Ok", "Err" and "0" are
\* spelt out byte by byte
RECURSIVE TreeOf(_)
TreeOf(v) ==
    CASE v.ty \in {"str", "Bytes"} -> L(v.bytes)
      [] v.ty = "uint" -> L(Minimal(v.image))
      [] v.ty = "Option" ->
             IF v.val = None
             THEN ListNode(<<L(<<118, 97, 114, 105, 97, 110, 116>>), L(<<78, 111, 110, 101>>)>>, None)
             ELSE ListNode(<<L(<<118, 97, 114, 105, 97, 110, 116>>), L(<<83, 111, 109, 101>>),
                             L(<<48>>), TreeOf(v.val[1])>>, None)
      [] v.ty = "Result" ->
             ListNode(<<L(<<118, 97, 114, 105, 97, 110, 116>>),
                        L(IF v.ok THEN <<79, 107>> ELSE <<69, 114, 114>>),
                        L(<<48>>), TreeOf(v.val)>>, None)
      [] v.ty \in SeqTypes \cup {"tuple"} ->
             ListNode([i \in 1..Len(v.items) |-> TreeOf(v.items[i])], None)

\* None, Some(x), Ok(x) and Err(x) are pairwise distinct, and so are
\* Some(None) and None
C14_Distinct ==
    \A x \in AtomSamples \cup U8Vecs \cup {OptionNone} :
        LET forms == <<OptionNone, OptionSome(x), ResultOk(x), ResultErr(x)>>
        IN \A i, j \in 1..4 : i # j => DigestOf(forms[i]) # DigestOf(forms[j])

\* C14: an Option and a Result are written as enums, untagged: Some(x) as
\* the list ["variant", "Some", "0", enc(x)], None as ["variant", "None"],
\* Ok(x) and Err(x) as ["variant", "Ok" or "Err", "0", enc(x)]; None,
\* Some(x), Ok(x) and Err(x) have pairwise different bytes.
C14_OptionResult ==
    /\ (DigestedValue /\ valIn[1].ty \in {"Option", "Result"})
           => buffer = GrammarBytes(TreeOf(valIn[1]))
    /\ C14_Distinct

\* Some("1") was digested
C14_Witness ==
    /\ DigestedValue
    /\ valIn[1] = OptionSome(Str(<<49>>))
    /\ buffer # <<>>

\* a comes before b in the order of byte strings: a is a proper prefix of
\* b, or the first byte in which they differ is smaller in a
LexBefore(a, b) ==
    \E k \in 0..Len(a) :
        /\ k <= Len(b)
        /\ SubSeq(a, 1, k) = SubSeq(b, 1, k)
        /\ \/ k = Len(a) /\ k < Len(b)
           \/ k < Len(a) /\ k < Len(b) /\ a[k + 1] < b[k + 1]

\* the order of the sampled keys and elements: strings by their bytes,
\* unsigned integers by value
KeyBefore(x, y) ==
    IF x.ty = "uint" THEN x.image # y.image /\ Leq(x.image, y.image)
    ELSE LexBefore(x.bytes, y.bytes)

\* the elements of a set in ascending order, and the entries of a map in
\* ascending order of their keys
Ascending(S) ==
    CHOOSE s \in [1..Cardinality(S) -> S] :
        \A i, j \in 1..Cardinality(S) : i < j => KeyBefore(s[i], s[j])
AscendingKeys(S) ==
    CHOOSE s \in [1..Cardinality(S) -> S] :
        \A i, j \in 1..Cardinality(S) : i < j => KeyBefore(s[i][1], s[j][1])

\* how many elements a collection holds
ElementCount(v) ==
    CASE v.ty = "BTreeSet" -> Cardinality(v.elems)
      [] v.ty = "BTreeMap" -> Cardinality(v.entries)
      [] OTHER -> Len(v.items)

\* the elements of a collection that is not a map
ElementsOf(v) ==
    IF v.ty = "BTreeSet" THEN v.elems ELSE {v.items[i] : i \in 1..Len(v.items)}

\* the list the claims give a collection
ListTree(v) ==
    CASE v.ty = "BTreeSet" ->
             ListNode([i \in 1..Cardinality(v.elems) |-> TreeOf(Ascending(v.elems)[i])], None)
      [] v.ty = "BTreeMap" ->
             ListNode([i \in 1..Cardinality(v.entries) |->
                          ListNode(<<TreeOf(AscendingKeys(v.entries)[i][1]),
                                     TreeOf(AscendingKeys(v.entries)[i][2])>>, None)], None)
      [] OTHER -> TreeOf(v)

\* C15: a tuple, array, slice, Vec, LinkedList, VecDeque and BTreeSet is
\* written as the untagged list of its elements' encodings in iteration
\* order, the count being the number of elements, so that the 1-tuple (x,)
\* is a list of one item and not enc(x); a BTreeMap is written as the list
\* of one [enc(key), enc(value)] per entry in ascending order of the keys.
C15_Collections ==
    (DigestedValue /\ valIn[1].ty \in SeqTypes \cup {"tuple", "BTreeSet", "BTreeMap"}) =>
        /\ buffer = GrammarBytes(ListTree(valIn[1]))
        /\ SubSeq(buffer, Len(buffer) - 5, Len(buffer)) = BE4(ElementCount(valIn[1])) \o <<5, 1>>
        /\ ElementCount(valIn[1]) = 1 /\ valIn[1].ty # "BTreeMap" =>
               \A x \in ElementsOf(valIn[1]) : buffer # DigestOf(x)

\* a BTreeMap of two entries was digested
C15_Witness ==
    /\ DigestedValue
    /\ valIn[1].ty = "BTreeMap"
    /\ Cardinality(valIn[1].entries) = 2
    /\ buffer # <<>>

(***************************************************************************)
(* DigestAs as the claims state it.                                        *)
(***************************************************************************)
\* the bytes of a byte string: those of a string, or the u8s of a Vec<u8>
RawBytes(v) ==
    IF v.ty \in SeqTypes THEN [i \in 1..Len(v.items) |-> v.items[i].image[1]] ELSE v.bytes

\* the tree of a value encoded by the rule Same or Bytes
TreeAs(v, rule) == IF rule = BytesRule THEN L(RawBytes(v)) ELSE TreeOf(v)

\* what a hash collection holds
Range(order) == {order[i] : i \in 1..Len(order)}

\* the sorted collection that holds what the hash collection holds
Sorted(v) == IF v.ty = "HashMap" THEN BTreeMap(Range(v.order)) ELSE BTreeSet(Range(v.order))

\* the same hash collection yielding its elements in the given order
Reordered(v, order) == [v EXCEPT !.order = order]

\* the list of a sorted collection under the inner rules
SortedTree(v, rule) ==
    IF v.ty = "HashMap"
    THEN ListNode([i \in 1..Len(v.order) |->
                      ListNode(<<TreeAs(AscendingKeys(Range(v.order))[i][1], rule.rules[1]),
                                 TreeAs(AscendingKeys(Range(v.order))[i][2], rule.rules[2])>>,
                               None)], None)
    ELSE ListNode([i \in 1..Len(v.order) |->
                      TreeAs(Ascending(Range(v.order))[i], rule.rules[1])], None)

\* C16: a HashMap digested as a BTreeMap, and a HashSet digested as a
\* BTreeSet, leaves the bytes of the BTreeMap or BTreeSet that holds the
\* same entries, digested by the same rule: the list in ascending key order
\* with the keys and values encoded by the inner rules; and it leaves the
\* same bytes in whatever order the hash collection yields its entries.
C16_HashOrder ==
    (DigestedValue /\ valIn[1].ty = "As" /\ valIn[1].value.ty \in {"HashMap", "HashSet"}) =>
        LET v == valIn[1].value
            rule == valIn[1].rule
        IN /\ buffer = DigestOf(As(Sorted(v), rule))
           /\ buffer = GrammarBytes(SortedTree(v, rule))
           /\ \A order \in Orders(Range(v.order)) :
                  DigestOf(As(Reordered(v, order), rule)) = buffer

\* a HashMap that yields its two entries in descending order of the keys
\* was digested as a BTreeMap
C16_Witness ==
    /\ DigestedValue
    /\ valIn[1].ty = "As"
    /\ valIn[1].value.ty = "HashMap"
    /\ Len(valIn[1].value.order) = 2
    /\ KeyBefore(valIn[1].value.order[2][1], valIn[1].value.order[1][1])
    /\ buffer # <<>>

\* the same container holding each element wrapped to be encoded by the
\* rule that the container's rule has for it
Wrapped(c, rule) ==
    CASE c.ty = "Option" ->
             IF c.val = None THEN c ELSE OptionSome(As(c.val[1], rule.rules[1]))
      [] c.ty = "Result" ->
             [c EXCEPT !.val = As(c.val, rule.rules[IF c.ok THEN 1 ELSE 2])]
      [] c.ty = "tuple" ->
             Tuple([i \in 1..Len(c.items) |-> As(c.items[i], rule.rules[i])])
      [] c.ty \in SeqTypes ->
             SeqOf(c.ty, [i \in 1..Len(c.items) |-> As(c.items[i], rule.rules[1])])
      [] c.ty = "BTreeSet" -> BTreeSet({As(x, rule.rules[1]) : x \in c.elems})
      [] c.ty = "BTreeMap" ->
             BTreeMap({<<As(e[1], rule.rules[1]), As(e[2], rule.rules[2])>> : e \in c.entries})

ContainerTypes == SeqTypes \cup {"Option", "Result", "tuple", "BTreeSet", "BTreeMap"}

\* every rule inside the rule is Same
AllSame(rule) == \A i \in 1..Len(rule.rules) : rule.rules[i] = Same

\* C17: a container digested by the rule container-of-U leaves the bytes of
\* the same container holding each element wrapped to be encoded by U; an
\* Option<Vec<u8>> digested as Option<Bytes> is the Option of one leaf of
\* the bytes, a Vec<Vec<u8>> digested as Vec<Bytes> the list of one leaf per
\* element; with U = Same, and under the rule Same itself, the bytes are
\* those of the value's own encoding, and a byte string under the rule
\* Bytes is one leaf.
C17_Composes ==
    (DigestedValue /\ valIn[1].ty = "As") =>
        LET c == valIn[1].value
            rule == valIn[1].rule
        IN /\ (c.ty \in ContainerTypes /\ rule.of = c.ty) =>
                  /\ buffer = DigestOf(Wrapped(c, rule))
                  /\ AllSame(rule) => buffer = DigestOf(c)
           /\ (c.ty = "Option" /\ rule = Rule("Option", <<BytesRule>>)) =>
                  buffer = GrammarBytes(TreeOf([c EXCEPT !.val =
                               [i \in 1..Len(c.val) |-> Str(RawBytes(c.val[i]))]]))
           /\ (c.ty = "Vec" /\ rule = Rule("Vec", <<BytesRule>>)) =>
                  buffer = GrammarBytes(ListNode([i \in 1..Len(c.items) |->
                                                     L(RawBytes(c.items[i]))], None))
           /\ rule = Same => buffer = DigestOf(c)
           /\ rule = BytesRule => buffer = GrammarBytes(L(RawBytes(c)))

\* a Vec of two Vec<u8>, the second of two bytes, was digested as
\* Vec<Bytes>
C17_Witness ==
    /\ DigestedValue
    /\ valIn[1].ty = "As"
    /\ valIn[1].rule = Rule("Vec", <<BytesRule>>)
    /\ valIn[1].value.ty = "Vec"
    /\ Len(valIn[1].value.items) = 2
    /\ valIn[1].value.items[2].ty = "Vec"
    /\ Len(valIn[1].value.items[2].items) = 2
    /\ buffer # <<>>

(***************************************************************************)
(* The hash functions as the claims state them.                            *)
(***************************************************************************)
IterFns == {"hash_iter", "hash_xof_iter", "hash_vof_iter"}
VofFns == {"hash_vof", "hash_vof_iter"}
HashReturned == valIn # None /\ result # None

\* what hash, hash_xof and hash_vof feed the hash for a value
FedFor(v) == hash_value(Fresh, v).buffer

\* C18: hash_iter, hash_xof_iter and hash_vof_iter, when they return a
\* digest, have fed the hash one list tagged "udigest.list" whose items are
\* the encodings of the iterator's items in iteration order: the item
\* encodings, the count of the items, 5, the tag, its length 12, 5 and 2.
\* An iterator of one item feeds other bytes than hash of the item does,
\* an empty iterator feeds the tagged empty list.
C18_HashIter ==
    (HashReturned /\ valIn[1].fn \in IterFns /\ result[1].ok) =>
        LET iter == valIn[1].arg
        IN /\ buffer = Flatten([i \in 1..Len(iter) |-> GrammarBytes(TreeOf(iter[i]))])
                       \o BE4(Len(iter)) \o <<5>>
                       \o <<117, 100, 105, 103, 101, 115, 116, 46, 108, 105, 115, 116>>
                       \o <<0, 0, 0, 12, 5, 2>>
           /\ ~panicked /\ stack = <<>>
           /\ Len(iter) = 1 => buffer # FedFor(iter[1])
           /\ iter = <<>> =>
                  buffer = <<0, 0, 0, 0, 5>>
                           \o <<117, 100, 105, 103, 101, 115, 116, 46, 108, 105, 115, 116>>
                           \o <<0, 0, 0, 12, 5, 2>>

\* hash_iter has returned the digest of a string and a u8
C18_Witness ==
    /\ HashReturned
    /\ valIn[1].fn = "hash_iter"
    /\ Len(valIn[1].arg) = 2
    /\ valIn[1].arg[1].ty = "str"
    /\ valIn[1].arg[2].ty = "uint"
    /\ result[1].ok
    /\ buffer # <<>>

\* C19: hash_vof and hash_vof_iter, called with an output slice of a length
\* that the algorithm rejects, return the error InvalidOutputSize without a
\* panic, with nothing fed to a hash and every byte of the slice still the
\* caller's; called with a length that it accepts they return Ok, fed what
\* hash and hash_iter feed, and the slice holds the digest of it.
C19_VofSize ==
    (HashReturned /\ valIn[1].fn \in VofFns) =>
        LET n == Len(out[1])
        IN /\ ~panicked
           /\ n \notin valIn[1].D =>
                  /\ ~result[1].ok
                  /\ result[1] = InvalidOutputSize
                  /\ buffer = <<>>
                  /\ \A i \in 1..n : out[1][i].by = "caller"
           /\ n \in valIn[1].D =>
                  /\ result[1].ok
                  /\ buffer # <<>>
                  /\ valIn[1].fn = "hash_vof" => buffer = FedFor(valIn[1].arg)
                  /\ \A i \in 1..n : out[1][i] = [by |-> "digest", of |-> buffer, at |-> i]

\* hash_vof_iter was called with an iterator that has items and a slice of
\* a length that the algorithm rejects, and has returned
C19_Witness ==
    /\ HashReturned
    /\ valIn[1].fn = "hash_vof_iter"
    /\ valIn[1].arg # <<>>
    /\ Len(out[1]) > 0
    /\ Len(out[1]) \notin valIn[1].D
    /\ ~result[1].ok

\* the header the claim gives a tag value: the struct of the fields
\* "udigest_version" = "1" and "tag", with the domain tag "udigest.header"
HeaderTree(tag) ==
    ListNode(<<L(<<117, 100, 105, 103, 101, 115, 116, 95, 118, 101, 114, 115, 105, 111, 110>>),
               L(<<49>>),
               L(<<116, 97, 103>>),
               TreeOf(tag)>>,
             Some(<<117, 100, 105, 103, 101, 115, 116, 46, 104, 101, 97, 100, 101, 114>>))

TaggedCall == valIn # None /\ valIn[1].fn = "udigest"

\* C20: when a value is hashed with a top-level tag, the hash is first fed
\* the header, the struct of the field "udigest_version" holding the leaf
\* "1" and the field "tag" holding the tag value, with the domain tag
\* "udigest.header"; the main value is encoded after it into the same
\* hash, and its bytes are those it has without a header.
C20_Header ==
    /\ (TaggedCall /\ result = None /\ buffer # <<>>) =>
           buffer = GrammarBytes(HeaderTree(valIn[1].tag))
    /\ (TaggedCall /\ result # None) =>
           /\ buffer = GrammarBytes(HeaderTree(valIn[1].tag)) \o DigestOf(valIn[1].arg)
           /\ ~panicked /\ stack = <<>>

\* Some("1") was hashed with the tag "2"
C20_Witness ==
    /\ TaggedCall
    /\ result # None
    /\ valIn[1].tag = Str(<<50>>)
    /\ valIn[1].arg = OptionSome(Str(<<49>>))
    /\ buffer # <<>>

(***************************************************************************)
(* Inline and derived structs as the claims state them.                    *)
(***************************************************************************)
IsAddField(c) == c.call = "add_field"
IsSetTag(c) == c.call = "set_tag"
\* the add_field calls and the set_tag calls made on the builder, in order
AddCalls == SelectSeq(shadow, IsAddField)
TagCalls == SelectSeq(shadow, IsSetTag)
LastTag == IF TagCalls = <<>> THEN None ELSE Some(TagCalls[Len(TagCalls)].tag)

\* the struct declared with the fields in the order of the add_field calls
DeclaredStruct ==
    Struct(LastTag, [i \in 1..Len(AddCalls) |->
                        Field(AddCalls[i].field_name, AddCalls[i].field_value,
                              FieldAttrs_default)])

\* the list of name leaf and value, pair after pair, first added first
InlineTree ==
    ListNode([i \in 1..(2 * Len(AddCalls)) |->
                 IF i % 2 = 1 THEN L(AddCalls[(i + 1) \div 2].field_name)
                 ELSE TreeOf(AddCalls[i \div 2].field_value)],
             LastTag)

\* the names of a FieldsList from its head to Nil
RECURSIVE StoredNames(_)
StoredNames(list) ==
    IF list = <<>> THEN <<>> ELSE <<list[1].field_name>> \o StoredNames(list[1].tail)

InlineEncoded == valIn # None /\ result # None

\* C21: an inline struct holds its fields last added first, and is encoded
\* as the struct declared with the same fields in the order of the add_field
\* calls: the name leaf and the value of each field, first added first, as
\* one list whose domain tag is the tag set_tag was given last; when set_tag
\* was not called the list is untagged.
C21_InlineStruct ==
    /\ StoredNames(valIn[1].fields_list)
           = Reverse([i \in 1..Len(AddCalls) |-> AddCalls[i].field_name])
    /\ valIn[1].tag = LastTag
    /\ InlineEncoded =>
           /\ ~panicked /\ stack = <<>>
           /\ buffer = Struct_unambiguously_encode(DeclaredStruct, EncodeValue_new(Fresh)).buffer
           /\ buffer = GrammarBytes(InlineTree)
           /\ WrittenCount(buffer) = 2 * Len(AddCalls)
           /\ (TagCalls = <<>>) <=> (buffer[Len(buffer)] = 1)

\* an encoded inline struct of two fields with different names and values of
\* different types, whose tag was set between the two add_field calls
C21_Witness ==
    /\ InlineEncoded
    /\ Len(shadow) = 3
    /\ shadow[1].call = "add_field" /\ shadow[2].call = "set_tag"
    /\ shadow[3].call = "add_field"
    /\ shadow[1].field_name # shadow[3].field_name
    /\ shadow[1].field_value.ty = "str" /\ shadow[3].field_value.ty = "uint"
    /\ shadow[2].tag # <<>>

Derived == valIn # None /\ result # None

NotSkipped(f) == f.attrs.skip = None
\* the fields that are not marked skip, in declaration order
Kept(v) == SelectSeq(v.fields, NotSkipped)

\* the bytes a derived value leaves in an empty buffer
EncodeDerived(v) ==
    IF v.ty = "struct" THEN Struct_unambiguously_encode(v, EncodeValue_new(Fresh)).buffer
    ELSE Enum_unambiguously_encode(v, EncodeValue_new(Fresh)).buffer

\* the name a field is encoded under, and the tree of its value
NameOf(f) == IF f.attrs.rename = None THEN f.mem ELSE f.attrs.rename[1]
ValueTree(f) ==
    CASE f.attrs.as_bytes # None -> L(RawBytes(f.value))
      [] f.attrs.with # None -> ListNode(<<L(<<102, 111, 111>>), L(<<98, 97, 114>>)>>, None)
      [] f.attrs.as_ # None -> TreeAs(f.value, f.attrs.as_[1])
      [] OTHER -> TreeOf(f.value)

\* the list of a derived value: ["variant", name] for an enum, then name leaf
\* and value of every field that is not skipped, in declaration order
DerivedTree(v) ==
    ListNode((IF v.ty = "enum" THEN <<L(<<118, 97, 114, 105, 97, 110, 116>>), L(v.name)>>
              ELSE <<>>)
             \o [i \in 1..(2 * Len(Kept(v))) |->
                    IF i % 2 = 1 THEN L(NameOf(Kept(v)[(i + 1) \div 2]))
                    ELSE ValueTree(Kept(v)[i \div 2])],
             IF v.ty = "struct" THEN v.tag ELSE None)

\* the value declared without its skipped fields, and with field i not renamed
WithoutSkipped(v) == [v EXCEPT !.fields = Kept(v)]
Unrenamed(v, i) == [v EXCEPT !.fields[i].attrs.rename = None]

\* b1 and b2 are the same bytes but for one leaf, n1 in b1 and n2 in b2
OneLeafApart(b1, n1, b2, n2) ==
    \E k \in 0..Len(b1) :
        LET e1 == k + Len(n1) + 6
            e2 == k + Len(n2) + 6
        IN /\ e1 <= Len(b1) /\ e2 <= Len(b2)
           /\ SubSeq(b1, 1, k) = SubSeq(b2, 1, k)
           /\ SubSeq(b1, k + 1, e1) = n1 \o BE4(Len(n1)) \o <<5, 3>>
           /\ SubSeq(b2, k + 1, e2) = n2 \o BE4(Len(n2)) \o <<5, 3>>
           /\ SubSeq(b1, e1 + 1, Len(b1)) = SubSeq(b2, e2 + 1, Len(b2))

\* C22: a derived struct or enum variant is encoded as the list of its
\* fields' name leaves and values in declaration order; a skipped field adds
\* neither bytes nor items, so the bytes are those of the type declared
\* without it and the count written is 2 for every field that is not skipped,
\* and 2 more for an enum variant; and a renamed field's bytes are those of
\* the field under its declared name but for the name leaf.
C22_Derived ==
    Derived =>
        /\ ~panicked /\ stack = <<>>
        /\ buffer = GrammarBytes(DerivedTree(valIn[1]))
        /\ buffer = EncodeDerived(WithoutSkipped(valIn[1]))
        /\ WrittenCount(buffer)
               = 2 * Len(Kept(valIn[1])) + (IF valIn[1].ty = "enum" THEN 2 ELSE 0)
        /\ \A i \in 1..Len(valIn[1].fields) :
               LET f == valIn[1].fields[i]
               IN /\ (f.attrs.rename # None /\ f.attrs.skip = None) =>
                         OneLeafApart(buffer, f.attrs.rename[1],
                                      EncodeDerived(Unrenamed(valIn[1], i)), f.mem)
                  /\ (f.attrs.rename # None /\ f.attrs.skip # None) =>
                         buffer = EncodeDerived(Unrenamed(valIn[1], i))

\* an encoded enum variant whose first field is skipped and whose second
\* field is renamed to a longer name
C22_Witness ==
    /\ Derived
    /\ valIn[1].ty = "enum"
    /\ Len(valIn[1].fields) = 2
    /\ valIn[1].fields[1].attrs.skip # None
    /\ valIn[1].fields[2].attrs.skip = None
    /\ valIn[1].fields[2].attrs.rename # None
    /\ Len(valIn[1].fields[2].attrs.rename[1]) > Len(valIn[1].fields[2].mem)

(***************************************************************************)
(* Byte strings as the claims state them.                                  *)
(***************************************************************************)
\* C23: a str and a Bytes are written as one untagged leaf: their bytes as
\* they are, a leading zero byte included, then the length and LEAF; so a
\* str and a Bytes of the same bytes leave the same bytes, and PersonA with
\* name "Alice" the same as PersonB with the as_bytes field b"Alice".  A
\* Vec<u8> is written as the list of its bytes, each the leaf of a u8, which
\* are not the bytes of the Bytes that holds the same content.
C23_ByteStrings ==
    DigestedValue =>
        /\ valIn[1].ty \in {"str", "Bytes"} =>
               /\ buffer = valIn[1].bytes \o BE4(Len(valIn[1].bytes)) \o <<5, 3>>
               /\ buffer = DigestOf(Str(valIn[1].bytes))
               /\ buffer = DigestOf(BytesOfT(valIn[1].bytes))
        /\ valIn[1].ty = "Vec" =>
               /\ buffer = GrammarBytes(ListNode([i \in 1..Len(valIn[1].items) |->
                                                     L(Minimal(valIn[1].items[i].image))],
                                                 None))
               /\ buffer # DigestOf(BytesOfT(RawBytes(valIn[1])))
        /\ valIn[1].ty = "struct" =>
               /\ buffer = EncodeDerived(PersonA(RawBytes(valIn[1].fields[1].value)))
               /\ buffer = EncodeDerived(PersonB(RawBytes(valIn[1].fields[1].value)))
               /\ buffer = GrammarBytes(
                               ListNode(<<L(<<110, 97, 109, 101>>),
                                          L(RawBytes(valIn[1].fields[1].value))>>, None))

\* a Bytes that begins with a zero byte was encoded
C23_Witness ==
    /\ DigestedValue
    /\ valIn[1].ty = "Bytes"
    /\ Len(valIn[1].bytes) = 2 /\ valIn[1].bytes[1] = 0 /\ valIn[1].bytes[2] # 0

(***************************************************************************)
(* The encoders' counters and tags as the claims state them.               *)
(***************************************************************************)
\* the items of a list that were encoded, content and suffix
RECURSIVE EncodedItems(_)
EncodedItems(items) ==
    IF items = <<>> THEN 0
    ELSE (IF Head(items).kind = "hole" THEN 0 ELSE 1) + EncodedItems(Tail(items))

\* C24: the count a finished list has written is the number of its items
\* that were encoded into the buffer, whatever add_item, add_leaf and
\* add_list calls were made, an EncodeValue that add_item returned and that
\* was dropped unused included.
C24_CountsEncoded ==
    (Finished /\ result[1].kind = "list")
        => WrittenCount(buffer) = EncodedItems(result[1].items)

\* the last n bytes of b
LastBytes(b, n) == SubSeq(b, Len(b) - n + 1, Len(b))

\* C25: whatever fragments update and chain were handed, empty ones and none
\* at all included, a leaf's length counter is the number of bytes it has
\* forwarded to the buffer, which are the fragments one after the other, and
\* the finished leaf has the bytes of the leaf that was handed their
\* concatenation as one fragment; so the sign byte and the magnitude that
\* encode_signed_integer chains are the leaf of the two together.
C25_Concatenates ==
    /\ \A d \in 1..Len(stack) :
           stack[d].type = "EncodeLeaf" => stack[d].len = usize(Len(shadow[d].bytes))
    /\ (stack # <<>> /\ Top(Real).type = "EncodeLeaf") =>
           /\ Len(buffer) >= Len(ShTop.bytes)
           /\ LastBytes(buffer, Len(ShTop.bytes)) = ShTop.bytes
    /\ (Finished /\ result[1].kind = "leaf") =>
           buffer = FillLeaf(EncodeLeaf_new(Fresh), result[1]).buffer
    /\ encode_signed_integer(TRUE, <<0, 5>>, EncodeValue_new(Fresh)).buffer
           = FillLeaf(EncodeLeaf_new(Fresh), L(<<1, 5>>)).buffer

\* a finished leaf that was handed two bytes
C25_Witness ==
    /\ Finished
    /\ result[1].kind = "leaf"
    /\ Len(result[1].bytes) = 2

\* a struct of one field that is given the tag t before the field, after it,
\* and after the tag u was set
StructTaggedFirst(t) ==
    EncodeStruct_finish(EncodeLeaf_finish(EncodeValue_encode_leaf(
        EncodeStruct_add_field(EncodeStruct_set_tag(EncodeStruct_new(Fresh), t), <<97>>))))
StructTaggedLast(t) ==
    EncodeStruct_finish(EncodeStruct_set_tag(EncodeLeaf_finish(EncodeValue_encode_leaf(
        EncodeStruct_add_field(EncodeStruct_new(Fresh), <<97>>))), t))
StructTaggedTwice(u, t) ==
    EncodeStruct_finish(EncodeStruct_set_tag(EncodeLeaf_finish(EncodeValue_encode_leaf(
        EncodeStruct_add_field(EncodeStruct_set_tag(EncodeStruct_new(Fresh), u), <<97>>))), t))

\* C26: a set_tag or with_tag call on a leaf, a list or a struct writes
\* nothing; the tag an encoder holds is the one it was handed last; and the
\* finished value has the bytes of the value that is given its last tag
\* first and its content or items after, whenever its tags were set.
C26_TagFrame ==
    /\ [](\A d \in 1..Len(stack) :
             stack[d].type \in {"EncodeLeaf", "EncodeList"} => stack[d].tag = shadow[d].tag)
    /\ []((Finished /\ HoleFree(result[1])) => buffer = Encoded(result[1]))
    /\ \A t \in {<<>>, <<84>>}, u \in {<<>>, <<85>>} :
           /\ StructTaggedLast(t).buffer = StructTaggedFirst(t).buffer
           /\ StructTaggedTwice(u, t).buffer = StructTaggedFirst(t).buffer
    /\ [][tagged' # tagged => buffer' = buffer]_vars

\* a finished leaf with content whose tag was set twice
C26_Witness ==
    /\ Finished
    /\ result[1].kind = "leaf"
    /\ result[1].bytes # <<>>
    /\ result[1].tag # None
    /\ tagged = 2

\* the encoder that a step finishes: the innermost one, when the step leaves
\* fewer encoders than it found
Closes == Len(stack') < Len(stack) /\ ~panicked'

\* C27: an EncodeValue becomes one encoder and that encoder never becomes
\* another; whenever a value is finished it was turned into an encoder, and
\* the last byte written is LEAF or LEAF_CTX exactly for a leaf, LIST or
\* LIST_CTX exactly for a list, and a _CTX byte exactly when a tag was set.
C27_OneEncoder ==
    /\ [][\A d \in 1..Len(stack) :
             (d <= Len(stack') /\ stack[d].type # "EncodeValue")
                 => stack'[d].type = stack[d].type]_vars
    /\ [][Closes =>
             LET closed == stack[Len(stack)]
                 last == buffer'[Len(buffer')]
             IN /\ closed.type # "EncodeValue"
                /\ buffer' # <<>>
                /\ last \in {LEAF, LEAF_CTX} <=> closed.type = "EncodeLeaf"
                /\ last \in {LIST, LIST_CTX} <=> closed.type = "EncodeList"
                /\ last \in {LEAF_CTX, LIST_CTX} <=> closed.tag # None]_vars

(***************************************************************************)
(* The counters at the top of their range.                                 *)
(***************************************************************************)
\* what the run has added to the counter it started with: the bytes handed
\* to the leaf, or the add_item calls on the list
Added == IF (shadow # <<>> /\ shadow[1].kind = "list") \/ (result # None /\ result[1].kind = "list")
         THEN nodes - 1 ELSE fed
\* the counter it started with plus that, in unbounded arithmetic
TrueCount == AddWithCarry(lenIn[1], usize(Added), 0)

\* C28: the run panics exactly when the bytes handed to the leaf, or the
\* items added to the list, exceed usize::MAX; until then the counter is the
\* true number, and a finished leaf or list carries the true number as its
\* length.
C28_NoWrap ==
    /\ panicked <=> TrueCount.carry # 0
    /\ (~panicked /\ stack # <<>>) => stack[1].len = TrueCount.bytes
    /\ Finished =>
          LET len == encode_len(Enc(<<>>, <<>>, FALSE), TrueCount.bytes).buffer
              tag == IF result[1].tag = None THEN <<>>
                     ELSE result[1].tag[1]
                          \o encode_len(Enc(<<>>, <<>>, FALSE), usize(Len(result[1].tag[1]))).buffer
          IN \E body \in {SubSeq(buffer, 1, n) : n \in 0..Len(buffer)} :
                buffer = body \o len \o tag
                           \o <<IF result[1].kind = "leaf"
                                THEN (IF result[1].tag = None THEN LEAF ELSE LEAF_CTX)
                                ELSE (IF result[1].tag = None THEN LIST ELSE LIST_CTX)>>

\* an update that would take the leaf's length over usize::MAX has panicked
C28_Witness ==
    /\ panicked
    /\ stack[1].type = "EncodeLeaf"
    /\ fed = 1
    /\ lenIn = Some(usize_MAX)

(***************************************************************************)
(* The attributes of a field as the claims state them.                     *)
(***************************************************************************)
\* how many of the attributes seen so far are of this kind
Given(kind) == Cardinality({i \in 1..Len(shadow) : shadow[i] = kind})

\* C29: when process_field returns Ok, at most one of as_bytes, with, as
\* and skip is set, every attribute that is set was given exactly once and
\* the others never (rename too, beside any of them), and encode_field does
\* not take its unreachable!() arm.
C29_AttrsExclusive ==
    /\ result = Some("Ok") =>
          LET field_attrs == valIn[1]
          IN /\ count_trues(<<field_attrs.as_bytes # None, field_attrs.with # None,
                              field_attrs.as_ # None, field_attrs.skip # None>>) <= 1
             /\ Given("AsBytes") = (IF field_attrs.as_bytes # None THEN 1 ELSE 0)
             /\ Given("With") = (IF field_attrs.with # None THEN 1 ELSE 0)
             /\ Given("As") = (IF field_attrs.as_ # None THEN 1 ELSE 0)
             /\ Given("Skip") = (IF field_attrs.skip # None THEN 1 ELSE 0)
             /\ Given("Rename") = (IF field_attrs.rename # None THEN 1 ELSE 0)
             /\ \A kind \in {"Root", "Tag", "Bound", "malformed"} : Given(kind) = 0
             /\ encode_field_arm(field_attrs) # "unreachable"
    /\ out # None => out[1] \in {"skip", "as_bytes", "with", "as", "unambiguously_encode"}

\* a field that is renamed and encoded as bytes, with the attribute of another
\* crate between the two, passed process_field and was given to encode_field
C29_Witness ==
    /\ shadow = <<"Rename", "serde", "AsBytes">>
    /\ result = Some("Ok")
    /\ out = Some("as_bytes")

(***************************************************************************)
(* Integers of different widths.                                           *)
(***************************************************************************)
\* C30: an unsigned integer has the bytes of another unsigned integer, of
\* any width, exactly when the two are the same number, and so for signed
\* integers; the content of a signed integer other than zero has at least
\* two bytes, begins with 0 or 1, and its second byte is not zero.
C30_IntInjective ==
    /\ (Digested /\ ~intIn[1].signed) =>
           \A y \in AllIntImages :
               buffer = UnsignedBytes[y]
                   <=> ZeroExtend(intIn[1].image, MaxWidth) = ZeroExtend(y, MaxWidth)
    /\ (Digested /\ intIn[1].signed) =>
           LET x == intIn[1].image
               content == Content(buffer)
           IN /\ \A y \in AllIntImages :
                     buffer = SignedBytes[y] <=> SignExtend(x, MaxWidth) = SignExtend(y, MaxWidth)
              /\ (\E i \in 1..Len(x) : x[i] # 0) =>
                     /\ Len(content) >= 2
                     /\ content[1] \in {0, 1}
                     /\ content[2] # 0

\* a digested negative i8 that is also sampled as an i64
C30_Witness ==
    /\ Digested
    /\ intIn[1].signed
    /\ Len(intIn[1].image) = 1
    /\ is_negative(intIn[1].image)
    /\ \E y \in AllIntImages :
           /\ Len(y) = 8
           /\ SignExtend(y, MaxWidth) = SignExtend(intIn[1].image, MaxWidth)
           /\ buffer = SignedBytes[y]

====
